---- MODULE Spec2Model ----
(***************************************************************************)
(* A model of competitor_price_tracker.                                    *)
(*                                                                         *)
(*   Spec        the alert evaluator (src/alert_system.py): one            *)
(*               PriceAlertSystem instance evaluating successive cycles.   *)
(*   SpecScrape  one fan-out/join scraping cycle (src/main.py and          *)
(*               src/scraper/base_scraper.py), one task per scraper.       *)
(*   SpecPrice   the price text functions of BaseScraper                   *)
(*               (_format_price, _parse_price) applied to bounded inputs.  *)
(*   SpecParse   _parse_price applied to bounded price texts.              *)
(*   SpecSite    the three site variants (src/scraper/amazon.py,           *)
(*               phoneclick.py, teknozone.py) applied to a fetched page.   *)
(*   SpecCycle   main() and PriceTracker.run_tracking_cycle (src/main.py)  *)
(*               around one scraping cycle.                                *)
(*   SpecNotify  PriceAlertSystem.process_alerts with the alert log and    *)
(*               the notification email (src/alert_system.py).             *)
(*   SpecConfig  ConfigManager (src/utils/config_manager.py) loading and   *)
(*               reloading a configuration file that changes on disk.      *)
(*   SpecDisplay a site variant's normalize_price followed by the alert    *)
(*               evaluator's parse_price on the display price.             *)
(*                                                                         *)
(* Text is a sequence of one-character strings.  A number is an exact      *)
(* fraction [num, den] in lowest terms; Python's float rounding is not     *)
(* modelled, every price is the decimal its text denotes.                  *)
(***************************************************************************)
EXTENDS Integers, Sequences, FiniteSets, TLC

VARIABLES
    \* ---- alert evaluator (src/alert_system.py)
    latest_prices_file,   \* data/latest_prices.json as found by __init__
    config,               \* PriceAlertSystem.config
    last_prices,          \* PriceAlertSystem.last_prices
    current_prices,       \* argument of the latest check_price_alerts call
    alerts,               \* value returned by the latest check_price_alerts call
    cycle,                \* number of check_price_alerts calls so far
    \* ---- price text functions (src/scraper/base_scraper.py)
    price_in,             \* the price handed to _format_price
    price_text,           \* the text handed to _parse_price
    price_out,            \* what _parse_price returned or raised
    ppc,                  \* "start", "formatted", "parsed"; "text", "text_parsed";
                          \* "page", "shown", "read"
    \* ---- scraping cycle (src/main.py, src/scraper/base_scraper.py)
    scrapers,             \* PriceTracker.scrapers, the site keys in dict order
    settings,             \* config.settings (the price bounds)
    spc,                  \* scrape_all_sites: "idle", "gathering" or "done"
    tasks,                \* the tasks of the running call, one per site key
    valid_results,        \* the list scrape_all_sites builds and returns
    metrics,              \* calls of record_success / record_failure so far
    metrics_start,        \* metrics when the running call began
    warnings,             \* out-of-range warnings logged by the running call
    scycle,               \* number of scrape_all_sites calls so far
    \* ---- site variants (src/scraper/amazon.py, phoneclick.py, teknozone.py)
    page,                 \* what the request and the selectors find on the page
    site_result,          \* what the scrape_<site> call returned or raised
    \* ---- main() and run_tracking_cycle (src/main.py)
    rpc,                  \* "off", "start", "ready", "scraping", "returned", "exited"
    report,               \* the dict run_tracking_cycle returned
    save_calls,           \* the result lists storage.save_results was called with
    exit_code,            \* what main() returned, -1 before it returns
    \* ---- alert processing (src/alert_system.py)
    email_enabled,        \* config['email']['enabled']
    alert_log,            \* data/alert_log.json
    mail_server,          \* the SMTP sessions opened so far, with their outcome
    send_result,          \* what the latest send_email_alert call returned
    process_result,       \* what the latest process_alerts call returned
    passed,               \* the lists save_alert_log was called with so far
    notify_call,          \* the latest call on the instance and its argument
    \* ---- configuration (src/utils/config_manager.py)
    config_file,          \* config.json on disk
    config_manager,       \* the module-level singleton and its _sites
    conf_call,            \* the latest call into config_manager.py, "" before any
    load_error,           \* what the latest load_config call raised, "" if nothing
    loads                 \* number of load_config calls so far

alert_vars == <<latest_prices_file, config, last_prices, current_prices, alerts, cycle>>

price_vars == <<price_in, price_text, price_out, ppc>>

scrape_vars ==
    <<scrapers, settings, spc, tasks, valid_results, metrics, metrics_start, warnings, scycle>>

site_vars == <<page, site_result>>

cycle_vars == <<rpc, report, save_calls, exit_code>>

notify_vars ==
    <<email_enabled, alert_log, mail_server, send_result, process_result, passed,
      notify_call>>

conf_vars == <<config_file, config_manager, conf_call, load_error, loads>>

vars ==
    <<alert_vars, price_vars, scrape_vars, site_vars, cycle_vars, notify_vars, conf_vars>>

-----------------------------------------------------------------------------
(* Text helpers *)

Digits == <<"0", "1", "2", "3", "4", "5", "6", "7", "8", "9">>

IsDigit(c) == \E i \in 1..10 : Digits[i] = c

DigitVal(c) == (CHOOSE i \in 1..10 : Digits[i] = c) - 1

RECURSIVE Pow10(_)
Pow10(n) == IF n = 0 THEN 1 ELSE 10 * Pow10(n - 1)

\* str.replace(old, new) for a one-character old and any text new
RECURSIVE Replace(_, _, _)
Replace(s, old, new) ==
    IF s = <<>> THEN <<>>
    ELSE (IF Head(s) = old THEN new ELSE <<Head(s)>>) \o Replace(Tail(s), old, new)

\* the value of the digit run s[i..j]; 0 when the run is empty (j < i)
RECURSIVE DigitsValue(_, _, _)
DigitsValue(s, i, j) ==
    IF j < i THEN 0 ELSE 10 * DigitsValue(s, i, j - 1) + DigitVal(s[j])

\* greedy \d*: the last index of the digit run starting at i (i - 1 when empty)
RECURSIVE RunEnd(_, _)
RunEnd(s, i) ==
    IF i <= Len(s) /\ IsDigit(s[i]) THEN RunEnd(s, i + 1) ELSE i - 1

\* the first index at or after i holding a digit, 0 when there is none
RECURSIVE FirstDigit(_, _)
FirstDigit(s, i) ==
    IF i > Len(s) THEN 0 ELSE IF IsDigit(s[i]) THEN i ELSE FirstDigit(s, i + 1)

-----------------------------------------------------------------------------
(* Numbers: exact fractions in lowest terms, den > 0 *)

RECURSIVE GCD(_, _)
GCD(a, b) == IF b = 0 THEN a ELSE GCD(b, a % b)

Abs(n) == IF n < 0 THEN -n ELSE n

Frac(n, d) ==
    LET g == GCD(Abs(n), d) IN [num |-> n \div g, den |-> d \div g]

Num(n) == [num |-> n, den |-> 1]

Cents(c) == Frac(c, 100)

RSub(a, b) == Frac(a.num * b.den - b.num * a.den, a.den * b.den)

RMul(a, b) == Frac(a.num * b.num, a.den * b.den)

\* a / b for b > 0
RDiv(a, b) == Frac(a.num * b.den, a.den * b.num)

RLt(a, b) == a.num * b.den < b.num * a.den

RLe(a, b) == a.num * b.den <= b.num * a.den

\* float(text) of digits s[i..j], an optional '.', digits s[j+2..k]
DecimalValue(s, i, j, k) ==
    IF k <= j THEN Num(DigitsValue(s, i, j))
    ELSE Frac(DigitsValue(s, i, j) * Pow10(k - (j + 1)) + DigitsValue(s, j + 2, k),
              Pow10(k - (j + 1)))

-----------------------------------------------------------------------------
(* PriceAlertSystem, src/alert_system.py *)

\* parse_price: drop every '.', turn every ',' into '.', then take the first
\* match of \d+[.,]?\d* and convert it; 0.0 when nothing matches.  After
\* the two replacements the text holds no ',', so the separator is a '.'.
parse_price(price_str) ==
    LET t == Replace(Replace(price_str, ".", <<>>), ",", <<".">>)
        i == FirstDigit(t, 1)
    IN  IF i = 0 THEN Num(0)
        ELSE LET j == RunEnd(t, i)
                 k == IF j < Len(t) /\ t[j + 1] = "." THEN RunEnd(t, j + 2) ELSE j
             IN  DecimalValue(t, i, j, k)

\* the dict comprehension of load_last_prices: a later item of a site replaces
\* an earlier one
RECURSIVE prices_by_site(_, _)
prices_by_site(items, n) ==
    IF n = 0 THEN [s \in {} |-> Num(0)]
    ELSE LET rest == prices_by_site(items, n - 1)
             item == items[n]
         IN  [s \in DOMAIN rest \cup {item.site} |->
                 IF s = item.site THEN parse_price(item.price) ELSE rest[s]]

\* load_last_prices: FileNotFoundError and JSONDecodeError give the empty map
load_last_prices(file) ==
    IF file.status # "ok" THEN [s \in {} |-> Num(0)]
    ELSE prices_by_site(file.prices, Len(file.prices))

\* self.last_prices.get(site, 0)
last_price_of(site) ==
    IF site \in DOMAIN last_prices THEN last_prices[site] ELSE Num(0)

\* self.config['target_prices'].get(site, 0)
target_price_of(site) ==
    IF site \in DOMAIN config.target_prices THEN config.target_prices[site] ELSE Num(0)

\* percentage_rule with a strict comparison against the threshold
percentage_rule_strict(current_price, last_price) ==
    IF RLt(current_price, last_price)
       /\ RLt(config.thresholds.percentage_drop,
              RMul(RDiv(RSub(last_price, current_price), last_price), Num(100)))
    THEN <<"percentage_drop">> ELSE <<>>

\* rule 1: percentage drop
percentage_rule(current_price, last_price) ==
    IF RLt(current_price, last_price)
       /\ RLe(config.thresholds.percentage_drop,
              RMul(RDiv(RSub(last_price, current_price), last_price), Num(100)))
    THEN <<"percentage_drop">> ELSE <<>>

\* absolute_rule comparing the size of the change, whatever its direction
absolute_rule_unsigned(current_price, last_price) ==
    LET change == RSub(last_price, current_price)
    IN  IF RLe(config.thresholds.absolute_drop, [num |-> Abs(change.num), den |-> change.den])
        THEN <<"absolute_drop">> ELSE <<>>

\* rule 2: absolute drop
absolute_rule(current_price, last_price) ==
    IF RLt(current_price, last_price)
       /\ RLe(config.thresholds.absolute_drop, RSub(last_price, current_price))
    THEN <<"absolute_drop">> ELSE <<>>

\* rule 3: target price reached
target_rule(current_price, target_price) ==
    IF RLt(Num(0), target_price) /\ RLe(current_price, target_price)
    THEN <<"target_reached">> ELSE <<>>

\* skip_entry that tests the baseline only
skip_entry_baseline_only(current_price, last_price) ==
    last_price.num = 0

\* the skip test of the loop body
skip_entry(current_price, last_price) ==
    last_price.num = 0 \/ current_price.num = 0

\* alert_reasons that evaluates the target rule only when the price dropped
alert_reasons_target_on_drop(current_price, last_price, target_price) ==
    percentage_rule(current_price, last_price)
        \o absolute_rule(current_price, last_price)
        \o (IF RLt(current_price, last_price)
            THEN target_rule(current_price, target_price) ELSE <<>>)

\* alert_reasons of one entry, in the order the rules append them
alert_reasons(current_price, last_price, target_price) ==
    percentage_rule(current_price, last_price)
        \o absolute_rule(current_price, last_price)
        \o target_rule(current_price, target_price)

\* check_entry without the test that some rule fired
check_entry_always(price_data) ==
    LET site          == price_data.site
        current_price == parse_price(price_data.price)
        last_price    == last_price_of(site)
        target_price  == target_price_of(site)
    IN  IF skip_entry(current_price, last_price) THEN <<>>
        ELSE << [site            |-> site,
                 title           |-> price_data.title,
                 current_price   |-> current_price,
                 last_price      |-> last_price,
                 price_formatted |-> price_data.price,
                 url             |-> price_data.url,
                 reasons         |-> alert_reasons(current_price, last_price, target_price)] >>

\* one iteration of the loop: the alerts it appends (none or one)
check_entry(price_data) ==
    LET site          == price_data.site
        current_price == parse_price(price_data.price)
        last_price    == last_price_of(site)
        target_price  == target_price_of(site)
        reasons       == alert_reasons(current_price, last_price, target_price)
    IN  IF skip_entry(current_price, last_price) THEN <<>>
        ELSE IF reasons # <<>>
             THEN << [site            |-> site,
                      title           |-> price_data.title,
                      current_price   |-> current_price,
                      last_price      |-> last_price,
                      price_formatted |-> price_data.price,
                      url             |-> price_data.url,
                      reasons         |-> reasons] >>
             ELSE <<>>

RECURSIVE check_price_alerts(_)
check_price_alerts(prices) ==
    IF prices = <<>> THEN <<>>
    ELSE check_entry(Head(prices)) \o check_price_alerts(Tail(prices))

\* the replacement fields str.format finds in the template that opens
\* create_email_html: the braces of its six style rules, then {timestamp}
html_template_fields ==
    <<" font-family", " border", " color", " color", " color", " color", "timestamp">>

\* the keyword arguments of that str.format call
html_format_arguments == {"timestamp"}

\* create_email_html: the exception that leaves it, "" when it returns;
\* str.format raises KeyError at a field that is no argument
create_email_html ==
    IF \E i \in DOMAIN html_template_fields :
          html_template_fields[i] \notin html_format_arguments
    THEN "KeyError"
    ELSE ""

\* send_email_alert without its try/except
send_email_alert_uncaught(alerts_arg, smtp) ==
    IF ~email_enabled \/ alerts_arg = <<>>
    THEN [result |-> "False", sessions |-> <<>>]
    ELSE IF create_email_html # ""
    THEN [result |-> "raised", sessions |-> <<>>]
    ELSE [result |-> IF smtp = "sent" THEN "True" ELSE "raised",
          sessions |-> <<[alerts |-> alerts_arg, outcome |-> smtp]>>]

\* send_email_alert: what it returns ("True" or "False", "raised" if an
\* exception left it) and the SMTP session it opened, if any; smtp tells how
\* the session ends: "sent", or the step that raised.  The message is built,
\* create_email_html included, before the session is opened.
send_email_alert(alerts_arg, smtp) ==
    IF ~email_enabled \/ alerts_arg = <<>>
    THEN [result |-> "False", sessions |-> <<>>]
    ELSE IF create_email_html # ""
    THEN [result |-> "False", sessions |-> <<>>]
    ELSE [result |-> IF smtp = "sent" THEN "True" ELSE "False",
          sessions |-> <<[alerts |-> alerts_arg, outcome |-> smtp]>>]

\* save_alert_log writing only the new alerts
save_alert_log_overwrite(alerts_arg) ==
    IF alerts_arg = <<>> THEN alert_log
    ELSE [status |-> "ok", records |-> alerts_arg]

\* save_alert_log: the log file it leaves; a missing or unreadable log is
\* read as the empty list
save_alert_log(alerts_arg) ==
    IF alerts_arg = <<>> THEN alert_log
    ELSE LET log_data == IF alert_log.status = "ok" THEN alert_log.records ELSE <<>>
         IN  [status |-> "ok", records |-> log_data \o alerts_arg]

\* process_alerts calling send_email_alert whatever the configuration says
process_alerts_always_send(prices, smtp) ==
    LET found == check_price_alerts(prices)
        sent == IF found # <<>>
                THEN send_email_alert(found, smtp)
                ELSE [result |-> "none", sessions |-> <<>>]
    IN  [alerts |-> found,
         log |-> save_alert_log(found),
         saved |-> IF found # <<>> THEN <<found>> ELSE <<>>,
         sent |-> sent,
         returned |-> sent.result # "raised"]

\* process_alerts: check_price_alerts, then for a non-empty result
\* save_alert_log and, with email enabled, send_email_alert; it returns the
\* alerts unless an exception leaves it
process_alerts(prices, smtp) ==
    LET found == check_price_alerts(prices)
        sent == IF found # <<>> /\ email_enabled
                THEN send_email_alert(found, smtp)
                ELSE [result |-> "none", sessions |-> <<>>]
    IN  [alerts |-> found,
         log |-> save_alert_log(found),
         saved |-> IF found # <<>> THEN <<found>> ELSE <<>>,
         sent |-> sent,
         returned |-> sent.result # "raised"]

-----------------------------------------------------------------------------
(* BaseScraper price text functions, src/scraper/base_scraper.py *)

IsSpace(c) == c \in {" ", "\t", "\n"}

\* str.strip()
RECURSIVE LStrip(_)
LStrip(s) == IF s # <<>> /\ IsSpace(Head(s)) THEN LStrip(Tail(s)) ELSE s

RECURSIVE RStrip(_)
RStrip(s) ==
    IF s # <<>> /\ IsSpace(s[Len(s)]) THEN RStrip(SubSeq(s, 1, Len(s) - 1)) ELSE s

Strip(s) == RStrip(LStrip(s))

Contains(s, c) == \E i \in 1..Len(s) : s[i] = c

CountOf(s, c) == Cardinality({i \in 1..Len(s) : s[i] = c})

\* n >= 0 in decimal digits
RECURSIVE IntText(_)
IntText(n) ==
    IF n < 10 THEN <<Digits[n + 1]>>
    ELSE IntText(n \div 10) \o <<Digits[(n % 10) + 1]>>

\* the ',' option of the format mini-language: groups of three from the right
RECURSIVE Group3(_)
Group3(t) ==
    IF Len(t) <= 3 THEN t
    ELSE Group3(SubSeq(t, 1, Len(t) - 3)) \o <<",">> \o SubSeq(t, Len(t) - 2, Len(t))

\* price >= 0 rounded to hundredths (ties to even), in hundredths
RoundCents(price) ==
    LET whole == price.num \div price.den
        rest  == (price.num % price.den) * 100
        q     == rest \div price.den
        r     == rest % price.den
        up    == 2 * r > price.den \/ (2 * r = price.den /\ q % 2 = 1)
    IN  [whole |-> IF up /\ q = 99 THEN whole + 1 ELSE whole,
         cents |-> IF up THEN (q + 1) % 100 ELSE q]

\* f"{price:,.2f}" for price >= 0
FormatComma2f(price) ==
    LET c == RoundCents(price)
    IN  Group3(IntText(c.whole)) \o <<".">>
            \o <<Digits[(c.cents \div 10) + 1], Digits[(c.cents % 10) + 1]>>

\* _format_price without the exchange of ',' and '.'
_format_price_no_swap(price) == <<"€">> \o FormatComma2f(price)

\* _format_price with the format spec .2f in place of ,.2f
_format_price_no_grouping(price) ==
    LET c == RoundCents(price)
    IN  <<"€">> \o IntText(c.whole) \o <<",">>
            \o <<Digits[(c.cents \div 10) + 1], Digits[(c.cents % 10) + 1]>>

\* _format_price: the grouped text, then ',' and '.' exchanged through 'X'
_format_price(price) ==
    Replace(Replace(Replace(<<"€">> \o FormatComma2f(price), ",", <<"X">>),
                    ".", <<",">>),
            "X", <<".">>)

DigitsAt(s, i, n) == i + n - 1 <= Len(s) /\ \A k \in i..(i + n - 1) : IsDigit(s[k])

SepDigits(s, e, seps, n) == e + 1 <= Len(s) /\ s[e + 1] \in seps /\ DigitsAt(s, e + 2, n)

\* greedy (?:SEP\d{3})* after index e: the index where it ends
RECURSIVE Groups(_, _, _)
Groups(s, e, seps) ==
    IF SepDigits(s, e, seps, 3) THEN Groups(s, e + 4, seps) ELSE e

\* \d{1,3}(?:S1\d{3})*(?:S2\d{2})? at the first digit: every later part is
\* optional, so the greedy choices stand and the match starts at the first digit
GroupedNumeral(s, s1, s2) ==
    LET a == FirstDigit(s, 1)
    IN  IF a = 0 THEN <<>>
        ELSE LET e1 == IF RunEnd(s, a) < a + 2 THEN RunEnd(s, a) ELSE a + 2
                 e2 == Groups(s, e1, s1)
                 e3 == IF SepDigits(s, e2, s2, 2) THEN e2 + 3 ELSE e2
             IN  SubSeq(s, a, e3)

\* (\d+[.,]\d{2}): the first digit run followed by a separator and two digits
RECURSIVE SimpleDecimal(_, _)
SimpleDecimal(s, i) ==
    LET a == FirstDigit(s, i)
    IN  IF a = 0 THEN <<>>
        ELSE LET b == RunEnd(s, a)
             IN  IF SepDigits(s, b, {".", ","}, 2) THEN SubSeq(s, a, b + 3)
                 ELSE SimpleDecimal(s, b + 1)

\* (\d+): the first digit run
DigitRun(s) ==
    LET a == FirstDigit(s, 1)
    IN  IF a = 0 THEN <<>> ELSE SubSeq(s, a, RunEnd(s, a))

\* group 1 of re.search(self.price_patterns[n], s); <<>> when there is no match
PatternGroup(n, s) ==
    CASE n = 1 -> GroupedNumeral(s, {".", ","}, {".", ","})
      [] n = 2 -> GroupedNumeral(s, {"."}, {","})
      [] n = 3 -> SimpleDecimal(s, 1)
      [] OTHER -> DigitRun(s)

\* the handling of the European separators
Separators(price_str) ==
    IF Contains(price_str, ",") /\ Contains(price_str, ".")
    THEN Replace(Replace(price_str, ".", <<>>), ",", <<".">>)
    ELSE IF Contains(price_str, ",")
         THEN IF CountOf(price_str, ",") = 1 /\ price_str[Len(price_str) - 2] = ","
              THEN Replace(price_str, ",", <<".">>)
              ELSE Replace(price_str, ",", <<>>)
         ELSE price_str

\* float(t) for a text of digits and '.' that starts and ends with a digit:
\* ValueError when it holds more than one '.'
ToFloat(t) ==
    IF CountOf(t, ".") > 1 THEN [ok |-> FALSE, value |-> Num(0)]
    ELSE LET j == IF Contains(t, ".") THEN (CHOOSE i \in 1..Len(t) : t[i] = ".") - 1
                  ELSE Len(t)
         IN  [ok |-> TRUE, value |-> DecimalValue(t, 1, j, Len(t))]

\* the loop over self.price_patterns with the ValueError of float() let through
\* where the code continues with the next pattern
RECURSIVE TryPatterns_no_continue(_, _)
TryPatterns_no_continue(n, clean_text) ==
    IF n > 4 THEN [ok |-> FALSE, value |-> Num(0)]
    ELSE LET g == PatternGroup(n, clean_text)
         IN  IF g = <<>> THEN TryPatterns_no_continue(n + 1, clean_text)
             ELSE ToFloat(Separators(g))

\* the loop over self.price_patterns, from pattern n on
RECURSIVE TryPatterns(_, _)
TryPatterns(n, clean_text) ==
    IF n > 4 THEN [ok |-> FALSE, value |-> Num(0)]
    ELSE LET g == PatternGroup(n, clean_text)
         IN  IF g = <<>> THEN TryPatterns(n + 1, clean_text)
             ELSE LET f == ToFloat(Separators(g))
                  IN  IF f.ok THEN f ELSE TryPatterns(n + 1, clean_text)

\* _parse_price: ok = FALSE stands for the ValueError it raises
_parse_price(price_text_arg) ==
    IF price_text_arg = <<>> THEN [ok |-> FALSE, value |-> Num(0)]
    ELSE TryPatterns(1, Strip(price_text_arg))

-----------------------------------------------------------------------------
(* Inputs of the price text functions *)

SmallCents == 120

PriceInputs ==
    {Cents(c) : c \in (1..SmallCents)
                      \cup {99900, 99999, 100000, 100001, 123456, 999999, 1000000,
                            1234567, 99999999, 100000000, 123456789}}

\* price texts handed to _parse_price: every text of up to MaxTextLen
\* characters over digits, both separators, the euro symbol and the blank, and
\* some longer numerals
MaxTextLen == 5

ParseAlphabet == {"1", "2", "3", ".", ",", "€", " "}

LongTexts ==
    {<<"1", ".", "2", "3", "4", ".", "5", "6", "7">>,
     <<"1", ".", "2", "3", "4", ",", "5", "6">>,
     <<"1", "2", "3", "4", ",", "5", "6">>,
     <<"€", "4", "8", "6", ",", "0", "0">>,
     <<"1", "2", "3", "4", "5", "6", "7", "8", "9">>,
     <<"€", " ", "1", ",", "2", "3", "4", ".", "5", "6", "7">>}

ParseTexts == UNION {[1..n -> ParseAlphabet] : n \in 0..MaxTextLen} \cup LongTexts

-----------------------------------------------------------------------------
(* The site variants, src/scraper/amazon.py, phoneclick.py, teknozone.py *)

\* greedy \s* from index i: the first index that holds no white space
RECURSIVE SkipSpace(_, _)
SkipSpace(s, i) == IF i <= Len(s) /\ IsSpace(s[i]) THEN SkipSpace(s, i + 1) ELSE i

\* \d+[.,]\d+ matched at index a: the index where the match ends, 0 without
\* a match (the first \d+ must take its whole run for a separator to follow)
DecimalEnd(s, a) ==
    IF a > Len(s) \/ ~IsDigit(s[a]) THEN 0
    ELSE LET b == RunEnd(s, a)
         IN  IF b + 2 <= Len(s) /\ s[b + 1] \in {".", ","} /\ IsDigit(s[b + 2])
             THEN RunEnd(s, b + 2)
             ELSE 0

\* re.findall(r'€\s*(\d+[.,]\d+)', s) from index i on: the groups of the
\* matches, left to right, none overlapping
RECURSIVE EuroAmounts(_, _)
EuroAmounts(s, i) ==
    IF i > Len(s) THEN <<>>
    ELSE LET a == SkipSpace(s, i + 1)
             e == IF s[i] = "€" THEN DecimalEnd(s, a) ELSE 0
         IN  IF e > 0 THEN <<SubSeq(s, a, e)>> \o EuroAmounts(s, e + 1)
             ELSE EuroAmounts(s, i + 1)

\* re.search(r'(\d+)[.,](\d+)', s) from index i on: where group 1 starts and
\* ends and where group 2 ends; from = 0 without a match.  An optional prefix
\* €?\s* before the groups does not change them.
RECURSIVE FirstDecimal(_, _)
FirstDecimal(s, i) ==
    LET a == FirstDigit(s, i)
    IN  IF a = 0 THEN [from |-> 0, mid |-> 0, to |-> 0]
        ELSE LET e == DecimalEnd(s, a)
             IN  IF e > 0 THEN [from |-> a, mid |-> RunEnd(s, a), to |-> e]
                 ELSE FirstDecimal(s, RunEnd(s, a) + 1)

\* re.findall(r'\d+', s) from index i on
RECURSIVE DigitRuns(_, _)
DigitRuns(s, i) ==
    LET a == FirstDigit(s, i)
    IN  IF a = 0 THEN <<>>
        ELSE <<SubSeq(s, a, RunEnd(s, a))>> \o DigitRuns(s, RunEnd(s, a) + 1)

\* str.replace('&nbsp;', '')
RECURSIVE RemoveNbsp(_)
RemoveNbsp(s) ==
    IF s = <<>> THEN <<>>
    ELSE IF Len(s) >= 6 /\ SubSeq(s, 1, 6) = <<"&", "n", "b", "s", "p", ";">>
         THEN RemoveNbsp(SubSeq(s, 7, Len(s)))
         ELSE <<Head(s)>> \o RemoveNbsp(Tail(s))

\* amazon.normalize_price taking the last two digit runs as euros and cents
amazon_normalize_price_last_runs(price_text_arg) ==
    LET t       == Strip(price_text_arg)
        numbers == DigitRuns(t, 1)
        d       == FirstDecimal(t, 1)
    IN  IF Contains(t, "€") /\ Len(numbers) >= 2
        THEN <<"€">> \o numbers[Len(numbers) - 1] \o <<",">> \o numbers[Len(numbers)]
        ELSE IF Contains(t, "€") /\ Len(numbers) = 1
        THEN <<"€">> \o numbers[1] \o <<",", "0", "0">>
        ELSE IF d.from > 0
        THEN <<"€">> \o SubSeq(t, d.from, d.mid) \o <<",">> \o SubSeq(t, d.mid + 2, d.to)
        ELSE IF DigitRun(t) # <<>> THEN <<"€">> \o DigitRun(t) \o <<",", "0", "0">>
        ELSE t

\* amazon.normalize_price
amazon_normalize_price(price_text_arg) ==
    LET t       == Strip(price_text_arg)
        numbers == DigitRuns(t, 1)
        d       == FirstDecimal(t, 1)
    IN  IF Contains(t, "€") /\ Len(numbers) >= 2
        THEN <<"€">> \o numbers[1] \o <<",">> \o numbers[2]
        ELSE IF Contains(t, "€") /\ Len(numbers) = 1
        THEN <<"€">> \o numbers[1] \o <<",", "0", "0">>
        ELSE IF d.from > 0
        THEN <<"€">> \o SubSeq(t, d.from, d.mid) \o <<",">> \o SubSeq(t, d.mid + 2, d.to)
        ELSE IF DigitRun(t) # <<>> THEN <<"€">> \o DigitRun(t) \o <<",", "0", "0">>
        ELSE t

\* phoneclick.normalize_price
phoneclick_normalize_price(price_text_arg) ==
    LET t == RemoveNbsp(Strip(price_text_arg))
        d == FirstDecimal(t, 1)
    IN  IF d.from > 0 THEN <<"€">> \o SubSeq(t, d.from, d.to) ELSE t

\* teknozone.normalize_price
teknozone_normalize_price(price_text_arg) ==
    LET t == Strip(price_text_arg)
        m == EuroAmounts(t, 1)
    IN  IF m # <<>> THEN <<"€">> \o m[1] ELSE t

\* a scrape_<site> call returned its dict, or raised
Returned(site, price) == [site |-> site, ok |-> TRUE, price |-> price, error |-> ""]

Raised(site, error) == [site |-> site, ok |-> FALSE, price |-> <<>>, error |-> error]

\* scrape_amazon on the page pg: a-offscreen, else a-price-whole and
\* a-price-fraction (pg.fallback)
scrape_amazon(pg) ==
    IF pg.status # 200 THEN Raised("Amazon.it", "Status code")
    ELSE IF ~pg.title_found THEN Raised("Amazon.it", "Titolo non trovato")
    ELSE IF pg.container.found
    THEN Returned("Amazon.it", amazon_normalize_price(Strip(pg.container.text)))
    ELSE IF pg.fallback = <<>> THEN Raised("Amazon.it", "Prezzo non trovato")
    ELSE LET decimal == IF Len(pg.fallback) >= 2 THEN Strip(pg.fallback[2])
                        ELSE <<"0", "0">>
         IN  Returned("Amazon.it",
                      amazon_normalize_price(Strip(pg.fallback[1]) \o <<",">> \o decimal
                                                 \o <<"€">>))

\* scrape_phoneclick taking the first of the prices found in <ins>
scrape_phoneclick_first_match(pg) ==
    IF pg.status # 200 THEN Raised("Phoneclick.it", "Status code")
    ELSE IF ~pg.title_found THEN Raised("Phoneclick.it", "Titolo non trovato")
    ELSE IF ~pg.container.found THEN Raised("Phoneclick.it", "Prezzo non trovato")
    ELSE LET price_matches == EuroAmounts(pg.container.text, 1)
         IN  IF price_matches = <<>>
             THEN Raised("Phoneclick.it", "Formato prezzo non riconosciuto")
             ELSE Returned("Phoneclick.it",
                           phoneclick_normalize_price(<<"€">> \o price_matches[1]))

\* scrape_phoneclick on the page pg: the last of the prices found in <ins>
scrape_phoneclick(pg) ==
    IF pg.status # 200 THEN Raised("Phoneclick.it", "Status code")
    ELSE IF ~pg.title_found THEN Raised("Phoneclick.it", "Titolo non trovato")
    ELSE IF ~pg.container.found THEN Raised("Phoneclick.it", "Prezzo non trovato")
    ELSE LET price_matches == EuroAmounts(pg.container.text, 1)
         IN  IF price_matches = <<>>
             THEN Raised("Phoneclick.it", "Formato prezzo non riconosciuto")
             ELSE Returned("Phoneclick.it",
                           phoneclick_normalize_price(
                               <<"€">> \o price_matches[Len(price_matches)]))

\* the fallback of scrape_teknozone: the first <strong> (pg.fallback) whose
\* text holds the euro symbol and a decimal numeral; <<>> stands for None
RECURSIVE first_strong_price(_)
first_strong_price(strongs) ==
    IF strongs = <<>> THEN <<>>
    ELSE LET text == Strip(Head(strongs))
         IN  IF Contains(text, "€") /\ FirstDecimal(text, 1).from > 0 THEN text
             ELSE first_strong_price(Tail(strongs))

\* scrape_teknozone without the test for the euro symbol
scrape_teknozone_no_symbol_test(pg) ==
    IF pg.status # 200 THEN Raised("Teknozone.it", "Status code")
    ELSE IF ~pg.title_found THEN Raised("Teknozone.it", "Titolo non trovato")
    ELSE LET price_text_found == IF pg.container.found THEN Strip(pg.container.text)
                                 ELSE first_strong_price(pg.fallback)
         IN  IF ~pg.container.found /\ price_text_found = <<>>
             THEN Raised("Teknozone.it", "Prezzo non trovato")
             ELSE Returned("Teknozone.it", teknozone_normalize_price(price_text_found))

\* scrape_teknozone on the page pg: the text of product-cost (of its <strong>
\* when it has one), else the fallback
scrape_teknozone(pg) ==
    IF pg.status # 200 THEN Raised("Teknozone.it", "Status code")
    ELSE IF ~pg.title_found THEN Raised("Teknozone.it", "Titolo non trovato")
    ELSE LET price_text_found == IF pg.container.found THEN Strip(pg.container.text)
                                 ELSE first_strong_price(pg.fallback)
         IN  IF ~pg.container.found /\ price_text_found = <<>>
             THEN Raised("Teknozone.it", "Prezzo non trovato")
             ELSE IF ~Contains(price_text_found, "€")
             THEN Raised("Teknozone.it", "Formato prezzo non valido")
             ELSE Returned("Teknozone.it", teknozone_normalize_price(price_text_found))

-----------------------------------------------------------------------------
(* Inputs of the site variants *)

MaxAmounts == 2
MaxFallback == 2

A599 == <<"€", "5", "9", "9", ",", "0", "0">>
A480 == <<"€", "4", "8", "0", ",", "0", "0">>
E480 == <<"€", " ", "4", "8", "0", ",", "0", "0">>
W480 == <<"€", "4", "8", "0">>
G1299 == <<"€", "1", ".", "2", "9", "9", ",", "0", "0">>
P480 == <<"4", "8", "0", ",", "0", "0">>
B486 == <<"4", "8", "6">>

\* the amounts a price container can show
Amounts == {A599, A480, E480, W480, G1299, P480, B486}

AmountLists == UNION {[1..n -> Amounts] : n \in 0..MaxAmounts}

\* the amounts one after the other, a blank between them
RECURSIVE JoinAmounts(_)
JoinAmounts(amts) ==
    IF amts = <<>> THEN <<>>
    ELSE IF Len(amts) = 1 THEN amts[1]
    ELSE amts[1] \o <<" ">> \o JoinAmounts(Tail(amts))

ContainerTexts == {JoinAmounts(amts) : amts \in AmountLists}

\* texts of the elements the fallbacks look at
FallbackTexts == {B486, <<"0", "0">>, <<"€", "4", "8", "6", ",", "0", "0">>}

FallbackLists == UNION {[1..n -> FallbackTexts] : n \in 0..MaxFallback}

Pages ==
    {[status |-> st, title_found |-> tf,
      container |-> [found |-> TRUE, text |-> t], fallback |-> <<>>] :
        st \in {200, 503}, tf \in BOOLEAN, t \in ContainerTexts}
    \cup {[status |-> st, title_found |-> tf,
           container |-> [found |-> FALSE, text |-> <<>>], fallback |-> fb] :
        st \in {200, 503}, tf \in BOOLEAN, fb \in FallbackLists}

-----------------------------------------------------------------------------
(* ScrapingResult and BaseScraper.scrape, src/scraper/base_scraper.py *)

\* site_config.name and site_config.url of a site key
SiteName(site_key) ==
    CASE site_key = "amazon" -> "Amazon.it"
      [] site_key = "phoneclick" -> "Phoneclick.it"
      [] OTHER -> "Teknozone.it"

SiteUrl(site_key) == site_key

\* Python's None, with the fields of a result so that it can be compared
NoneResult ==
    [kind |-> "none", site |-> "", title |-> <<>>, price_text |-> <<>>,
     formatted_price |-> <<>>, price_numeric |-> Num(0), currency |-> "",
     url |-> "", success |-> FALSE, error_message |-> ""]

\* ScrapingResult.failed_result
failed_result(site, url, error) ==
    [kind |-> "result", site |-> site, title |-> <<>>, price_text |-> <<>>,
     formatted_price |-> <<>>, price_numeric |-> Num(0), currency |-> "EUR",
     url |-> url, success |-> FALSE, error_message |-> error]

\* _validate_extracted_data with the price test weakened to price < 0
_validate_extracted_data_negative_only(title, text, price_numeric) ==
    IF title = <<>> THEN "Titolo del prodotto non trovato"
    ELSE IF text = <<>> THEN "Prezzo non trovato"
    ELSE IF price_numeric.num < 0 THEN "Prezzo non valido"
    ELSE "ok"

\* _validate_extracted_data: the ValueError it raises, or "ok"
_validate_extracted_data(title, text, price_numeric) ==
    IF title = <<>> THEN "Titolo del prodotto non trovato"
    ELSE IF text = <<>> THEN "Prezzo non trovato"
    ELSE IF price_numeric.num <= 0 THEN "Prezzo non valido"
    ELSE "ok"

\* the range test with both bounds exclusive
validate_price_exclusive(price) ==
    RLt(settings.min_price, price) /\ RLt(price, settings.max_price)

\* min_price <= price <= max_price, the test of _validate_extracted_data's
\* warning and of ConfigManager.validate_price
validate_price(price) == RLe(settings.min_price, price) /\ RLe(price, settings.max_price)

\* BaseScraper.scrape for given outcomes of _fetch_page, _extract_title and
\* _extract_price: every exception becomes a failed_result
scrape(site_key, fetch, title, price) ==
    LET name == SiteName(site_key)
        url  == SiteUrl(site_key)
    IN  IF fetch # "ok" THEN failed_result(name, url, fetch)
        ELSE IF title.raised THEN failed_result(name, url, "Titolo non trovato")
        ELSE IF price.raised THEN failed_result(name, url, "Prezzo non trovato")
        ELSE LET error == _validate_extracted_data(title.text, price.text, price.numeric)
             IN  IF error # "ok" THEN failed_result(name, url, error)
                 ELSE [kind |-> "result", site |-> name, title |-> Strip(title.text),
                       price_text |-> price.text,
                       formatted_price |-> _format_price(price.numeric),
                       price_numeric |-> price.numeric, currency |-> "EUR",
                       url |-> url, success |-> TRUE, error_message |-> ""]

\* the warning of _validate_extracted_data, logged when validation passed
scraper_warning(site_key, result) ==
    IF result.success /\ ~validate_price(result.price_numeric)
    THEN {<<site_key, "base_scraper">>} ELSE {}

-----------------------------------------------------------------------------
(* PriceTracker, src/main.py *)

\* _scrape_single_site: an exception outside scrape() is logged and gives None
_scrape_single_site(site_key, pre, fetch, title, price) ==
    IF pre # "ok" THEN NoneResult ELSE scrape(site_key, fetch, title, price)

\* the warning of _scrape_single_site
tracker_warning(site_key, result) ==
    IF result.kind = "result" /\ result.success /\ result.price_numeric.num # 0
       /\ ~validate_price(result.price_numeric)
    THEN {<<site_key, "main">>} ELSE {}

\* the classification loop that stops at the first result that is not a success
RECURSIVE classify_stop_at_failure(_)
classify_stop_at_failure(results) ==
    IF results = <<>> THEN [valid |-> <<>>, successes |-> 0, failures |-> 0]
    ELSE LET result == Head(results)
         IN  IF result.kind = "result" /\ result.success
             THEN LET rest == classify_stop_at_failure(Tail(results))
                  IN  [valid |-> <<result>> \o rest.valid,
                       successes |-> rest.successes + 1, failures |-> rest.failures]
             ELSE [valid |-> <<>>, successes |-> 0, failures |-> Len(results)]

\* the classification loop of scrape_all_sites over the gathered results
RECURSIVE classify(_)
classify(results) ==
    IF results = <<>> THEN [valid |-> <<>>, successes |-> 0, failures |-> 0]
    ELSE LET result == Head(results)
             rest   == classify(Tail(results))
         IN  IF result.kind = "exception"
             THEN [rest EXCEPT !.failures = @ + 1]
             ELSE IF result.kind = "result" /\ result.success
                  THEN [rest EXCEPT !.valid = <<result>> \o @, !.successes = @ + 1]
                  ELSE [rest EXCEPT !.failures = @ + 1]

\* gather resumes as soon as some task is finished
gather_ready_first_completed == \E k \in DOMAIN tasks : tasks[k].pc = "done"

\* asyncio.gather(*tasks, return_exceptions=True) resumes: every task is finished
gather_ready == \A k \in DOMAIN tasks : tasks[k].pc = "done"

\* run_tracking_cycle without its try/except: an exception of
\* storage.save_results leaves the call
run_tracking_cycle_uncaught(results, saved) ==
    IF results = <<>>
    THEN [raised |-> FALSE, success |-> FALSE,
          keys |-> {"success", "timestamp", "results", "execution_time"},
          results |-> <<>>, success_rate |-> <<0, 0>>]
    ELSE IF saved
    THEN [raised |-> FALSE, success |-> TRUE,
          keys |-> {"success", "timestamp", "product", "results", "execution_time",
                    "success_rate", "metrics"},
          results |-> results, success_rate |-> <<Len(results), Len(scrapers)>>]
    ELSE [raised |-> TRUE, success |-> FALSE, keys |-> {}, results |-> <<>>,
          success_rate |-> <<0, 0>>]

\* run_tracking_cycle after scrape_all_sites returned results: the dict it
\* returns; saved tells whether storage.save_results completed or raised
run_tracking_cycle(results, saved) ==
    IF results = <<>>
    THEN [raised |-> FALSE, success |-> FALSE,
          keys |-> {"success", "timestamp", "results", "execution_time"},
          results |-> <<>>, success_rate |-> <<0, 0>>]
    ELSE IF saved
    THEN [raised |-> FALSE, success |-> TRUE,
          keys |-> {"success", "timestamp", "product", "results", "execution_time",
                    "success_rate", "metrics"},
          results |-> results, success_rate |-> <<Len(results), Len(scrapers)>>]
    ELSE [raised |-> FALSE, success |-> FALSE,
          keys |-> {"success", "timestamp", "error", "execution_time"},
          results |-> <<>>, success_rate |-> <<0, 0>>]

\* scrape_all_sites is called directly, or once by a run_tracking_cycle call
\* that has not called it yet
scrape_all_sites_called == rpc = "off" \/ (rpc = "scraping" /\ spc = "idle")

-----------------------------------------------------------------------------
(* Inputs of the scraping cycle *)

\* the most site entries in the configuration file main() starts from
MaxCycleScrapers == 2

MaxScrapeCycles == 2

SiteKeys == <<"amazon", "phoneclick", "teknozone">>

\* the scrapers _load_scrapers managed to load, in configuration order
ScraperLists ==
    {SelectSeq(SiteKeys, LAMBDA k : k \in chosen) :
        chosen \in SUBSET {"amazon", "phoneclick", "teknozone"}}

SettingsSet == {[min_price |-> Num(100), max_price |-> Num(2000)]}

\* how _fetch_page can end: with the page, a non-200 status, a timeout, a
\* transport error
FetchOutcomes == {"ok", "HTTP 503", "timeout", "connection error"}

Unset == [raised |-> FALSE, text |-> <<>>, numeric |-> Num(0)]

TitleOutcomes ==
    {[raised |-> TRUE, text |-> <<>>, numeric |-> Num(0)],
     [raised |-> FALSE, text |-> <<>>, numeric |-> Num(0)],
     [raised |-> FALSE, text |-> <<" ", "S", "2", "3">>, numeric |-> Num(0)]}

PriceOutcomes ==
    {[raised |-> TRUE, text |-> <<>>, numeric |-> Num(0)],
     [raised |-> FALSE, text |-> <<>>, numeric |-> Num(0)],
     [raised |-> FALSE, text |-> <<"€", "0", ",", "0", "0">>, numeric |-> Num(0)],
     [raised |-> FALSE, text |-> <<"-", "5", ",", "0", "0">>, numeric |-> Num(-5)],
     [raised |-> FALSE, text |-> <<"€", "5", "0", ",", "0", "0">>, numeric |-> Num(50)],
     [raised |-> FALSE, text |-> <<"€", "4", "8", "6", ",", "0", "0">>, numeric |-> Num(486)],
     [raised |-> FALSE, text |-> <<"€", "1", "0", "0", ",", "0", "0">>, numeric |-> Num(100)],
     [raised |-> FALSE, text |-> <<"€", "2", ".", "0", "0", "0", ",", "0", "0">>,
      numeric |-> Num(2000)],
     [raised |-> FALSE, text |-> <<"€", "2", ".", "5", "0", "0", ",", "0", "0">>,
      numeric |-> Num(2500)]}

-----------------------------------------------------------------------------
(* ConfigManager, src/utils/config_manager.py *)

\* The configuration file is [status, sections, sites]: status is "missing",
\* "corrupt" (not JSON) or "ok"; sections are the top-level keys present;
\* sites are the entries of the 'sites' object in file order, each with its
\* key and its 'enabled' member: "true", "false" or "absent".

required_sections == <<"product", "sites", "settings">>

\* site_data.get('enabled', True)
is_enabled(site_data) == site_data.enabled # "false"

\* _validate_config without the test that a site is enabled
_validate_config_sections_only(data) ==
    IF \E i \in DOMAIN required_sections : required_sections[i] \notin data.sections
    THEN "Sezione mancante nella configurazione"
    ELSE ""

\* _validate_config: the message of the ValueError it raises, "" when it returns
_validate_config(data) ==
    IF \E i \in DOMAIN required_sections : required_sections[i] \notin data.sections
    THEN "Sezione mancante nella configurazione"
    ELSE IF SelectSeq(data.sites, is_enabled) = <<>>
         THEN "Nessun sito abilitato nella configurazione"
         ELSE ""

\* the keys of a dict kept as the sequence of its keys in insertion order
HasKey(keys, k) == \E i \in DOMAIN keys : keys[i] = k

\* the sites loop of _parse_config over the first n entries: an enabled
\* entry is stored under its key in self._sites, which is not emptied first
RECURSIVE _parse_config(_, _, _)
_parse_config(self_sites, sites_data, n) ==
    IF n = 0 THEN self_sites
    ELSE LET before == _parse_config(self_sites, sites_data, n - 1)
             site_data == sites_data[n]
         IN  IF is_enabled(site_data) /\ ~HasKey(before, site_data.key)
             THEN Append(before, site_data.key)
             ELSE before

\* load_config on an instance whose _sites are self_sites: what it raised
\* and the _sites it leaves
load_config(self_sites, file) ==
    IF file.status = "missing"
    THEN [error |-> "FileNotFoundError", sites |-> self_sites]
    ELSE IF file.status = "corrupt"
    THEN [error |-> "JSONDecodeError", sites |-> self_sites]
    ELSE LET invalid == _validate_config(file)
         IN  IF invalid # ""
             THEN [error |-> invalid, sites |-> self_sites]
             ELSE [error |-> "",
                   sites |-> _parse_config(self_sites, file.sites, Len(file.sites))]

\* ConfigManager.__init__: empty _sites, then load_config
ConfigManager(file) == load_config(<<>>, file)

\* the module-level config_manager before any instance is stored in it
NoManager == [installed |-> FALSE, sites |-> <<>>]

\* get_config_manager: the instance is stored only when its constructor returns
get_config_manager(file) ==
    IF ~config_manager.installed
    THEN LET made == ConfigManager(file)
         IN  IF made.error # ""
             THEN [error |-> made.error, config_manager |-> config_manager]
             ELSE [error |-> "",
                   config_manager |-> [installed |-> TRUE, sites |-> made.sites]]
    ELSE [error |-> "", config_manager |-> config_manager]

\* get_enabled_sites: list(self._sites.keys())
get_enabled_sites(manager) == manager.sites

\* is_site_enabled: site_key in self._sites
is_site_enabled(manager, site_key) == HasKey(manager.sites, site_key)

\* the keys of scraper_mapping in PriceTracker._load_scrapers (src/main.py)
scraper_mapping == {"amazon", "phoneclick", "teknozone"}

\* _load_scrapers: a scraper for every enabled site that has a mapping and
\* whose import and construction succeed (the keys in importable)
_load_scrapers(enabled_sites, importable) ==
    LET loaded(site_key) == site_key \in scraper_mapping /\ site_key \in importable
    IN  SelectSeq(enabled_sites, loaded)

-----------------------------------------------------------------------------
(* Inputs of the configuration *)

MaxSites == 2
MaxLoads == 3

ConfigKeys == {"amazon", "phoneclick", "ebay"}

EnabledFlags == {"true", "false", "absent"}

SiteEntries == [key : ConfigKeys, enabled : EnabledFlags]

\* the 'sites' object: entries with distinct keys
SiteLists ==
    {l \in UNION {[1..n -> SiteEntries] : n \in 0..MaxSites} :
        \A i, j \in DOMAIN l : i # j => l[i].key # l[j].key}

AllSections == {"product", "sites", "settings"}

ConfigFiles ==
    {[status |-> "missing", sections |-> {}, sites |-> <<>>],
     [status |-> "corrupt", sections |-> {}, sites |-> <<>>]}
    \cup {[status |-> "ok", sections |-> s, sites |-> <<>>] :
             s \in {t \in SUBSET AllSections : "sites" \notin t}}
    \cup {[status |-> "ok", sections |-> s,
           sites |-> <<[key |-> "amazon", enabled |-> "true"]>>] :
             s \in {t \in SUBSET AllSections : "sites" \in t /\ t # AllSections}}
    \cup {[status |-> "ok", sections |-> AllSections, sites |-> l] : l \in SiteLists}

-----------------------------------------------------------------------------
(* Inputs of the alert evaluator *)

MaxEntries == 2
MaxCycles == 2

Sites == {"Amazon.it", "Phoneclick.it"}

T350 == <<"€", "3", "5", "0", ",", "0", "0">>
T380 == <<"€", "3", "8", "0", ",", "0", "0">>
T400 == <<"€", "4", "0", "0", ",", "0", "0">>
TNone == <<"€", " ", "N", "/", "D">>

\* price texts a reading can carry; TNone holds no digit and parses to 0.0
ReadingTexts == {T380, TNone}

\* price texts the latest-prices file can carry
FileTexts == {T350, T380, T400, TNone}

Reading(site, text) ==
    [site |-> site, title |-> "Galaxy S23", price |-> text, url |-> site]

Readings == {Reading(s, t) : s \in Sites, t \in ReadingTexts}

ReadingLists == UNION {[1..n -> Readings] : n \in 0..MaxEntries}

LatestFiles ==
    {[status |-> "missing", prices |-> <<>>], [status |-> "corrupt", prices |-> <<>>],
     [status |-> "ok", prices |-> <<>>]}
    \cup {[status |-> "ok", prices |-> <<[site |-> "Amazon.it", price |-> t]>>] :
             t \in FileTexts}
    \cup {[status |-> "ok", prices |-> <<[site |-> "Amazon.it", price |-> T400],
                                          [site |-> "Phoneclick.it", price |-> t]>>] :
             t \in FileTexts}

Thresholds ==
    {[percentage_drop |-> Num(5), absolute_drop |-> Num(20)],
     [percentage_drop |-> Num(10), absolute_drop |-> Num(20)],
     [percentage_drop |-> Num(5), absolute_drop |-> Num(50)]}

TargetPrices ==
    {[s \in {} |-> Num(0)],
     [s \in {"Amazon.it"} |-> Num(0)],
     [s \in {"Amazon.it"} |-> Num(380)],
     [s \in Sites |-> IF s = "Amazon.it" THEN Num(350) ELSE Num(400)]}

Configs == {[thresholds |-> th, target_prices |-> tp] : th \in Thresholds, tp \in TargetPrices}

-----------------------------------------------------------------------------
(* Spec: one PriceAlertSystem instance *)

PriceIdle ==
    /\ price_in = Num(0)
    /\ price_text = <<>>
    /\ price_out = [ok |-> FALSE, value |-> Num(0)]
    /\ ppc = "off"

ScrapeIdle ==
    /\ scrapers = <<>>
    /\ settings = [min_price |-> Num(100), max_price |-> Num(2000)]
    /\ spc = "off"
    /\ tasks = <<>>
    /\ valid_results = <<>>
    /\ metrics = [successes |-> 0, failures |-> 0]
    /\ metrics_start = [successes |-> 0, failures |-> 0]
    /\ warnings = {}
    /\ scycle = 0

NoPage ==
    [status |-> 0, title_found |-> FALSE,
     container |-> [found |-> FALSE, text |-> <<>>], fallback |-> <<>>]

NoSiteResult == [site |-> "", ok |-> FALSE, price |-> <<>>, error |-> ""]

SiteIdle ==
    /\ page = NoPage
    /\ site_result = NoSiteResult

\* no report: run_tracking_cycle has not returned
NoReport ==
    [raised |-> FALSE, success |-> FALSE, keys |-> {}, results |-> <<>>,
     success_rate |-> <<0, 0>>]

CycleIdle ==
    /\ rpc = "off"
    /\ report = NoReport
    /\ save_calls = <<>>
    /\ exit_code = -1

NotifyIdle ==
    /\ email_enabled = FALSE
    /\ alert_log = [status |-> "missing", records |-> <<>>]
    /\ mail_server = <<>>
    /\ send_result = "none"
    /\ process_result = [returned |-> FALSE, alerts |-> <<>>]
    /\ passed = <<>>
    /\ notify_call = [op |-> "", arg |-> <<>>]

ConfIdle ==
    /\ config_file = [status |-> "missing", sections |-> {}, sites |-> <<>>]
    /\ config_manager = NoManager
    /\ conf_call = ""
    /\ load_error = ""
    /\ loads = 0

\* __init__: load_config, then load_last_prices
Init ==
    /\ latest_prices_file \in LatestFiles
    /\ config \in Configs
    /\ last_prices = load_last_prices(latest_prices_file)
    /\ current_prices = <<>>
    /\ alerts = <<>>
    /\ cycle = 0
    /\ PriceIdle
    /\ ScrapeIdle
    /\ SiteIdle
    /\ CycleIdle
    /\ NotifyIdle
    /\ ConfIdle

CheckPriceAlerts ==
    /\ cycle < MaxCycles
    /\ \E prices \in ReadingLists :
          /\ current_prices' = prices
          /\ alerts' = check_price_alerts(prices)
    /\ cycle' = cycle + 1
    /\ UNCHANGED <<latest_prices_file, config, last_prices>>
    /\ UNCHANGED <<price_vars, scrape_vars, site_vars, cycle_vars, notify_vars, conf_vars>>

Next == CheckPriceAlerts

Spec == Init /\ [][Next]_vars

-----------------------------------------------------------------------------
(* SpecNotify: one PriceAlertSystem instance processing alerts *)

MaxProcess == 2
MaxSaves == 1

\* how the SMTP session of send_email_alert can end
SmtpOutcomes == {"sent", "connect_error", "starttls_error", "login_error", "sendmail_error"}

AlertLogs ==
    {[status |-> "missing", records |-> <<>>], [status |-> "corrupt", records |-> <<>>],
     [status |-> "ok", records |-> <<>>]}

\* the latest prices the instance starts from: both sites at 400,00
NotifyLatestFile ==
    [status |-> "ok", prices |-> <<[site |-> "Amazon.it", price |-> T400],
                                   [site |-> "Phoneclick.it", price |-> T400]>>]

\* thresholds of 5% and 20 euros, no target price
NotifyConfig ==
    [thresholds |-> [percentage_drop |-> Num(5), absolute_drop |-> Num(20)],
     target_prices |-> [s \in {} |-> Num(0)]]

\* the readings of a cycle: none, one that alerts, one that does not, two
\* that alert
NotifyPrices ==
    {<<>>,
     <<Reading("Amazon.it", T380)>>,
     <<Reading("Amazon.it", TNone)>>,
     <<Reading("Amazon.it", T380), Reading("Phoneclick.it", T380)>>}

InitNotify ==
    /\ latest_prices_file = NotifyLatestFile
    /\ config = NotifyConfig
    /\ last_prices = load_last_prices(latest_prices_file)
    /\ current_prices = <<>>
    /\ alerts = <<>>
    /\ cycle = 0
    /\ email_enabled \in BOOLEAN
    /\ alert_log \in AlertLogs
    /\ mail_server = <<>>
    /\ send_result = "none"
    /\ process_result = [returned |-> FALSE, alerts |-> <<>>]
    /\ passed = <<>>
    /\ notify_call = [op |-> "", arg |-> <<>>]
    /\ PriceIdle
    /\ ScrapeIdle
    /\ SiteIdle
    /\ CycleIdle
    /\ ConfIdle

ProcessAlerts ==
    /\ cycle < MaxProcess
    /\ \E prices \in NotifyPrices, smtp \in SmtpOutcomes :
          LET done == process_alerts(prices, smtp)
          IN  /\ current_prices' = prices
              /\ alerts' = done.alerts
              /\ alert_log' = done.log
              /\ passed' = passed \o done.saved
              /\ mail_server' = mail_server \o done.sent.sessions
              /\ send_result' = done.sent.result
              /\ process_result' = [returned |-> done.returned, alerts |-> done.alerts]
              /\ notify_call' = [op |-> "process_alerts", arg |-> prices]
    /\ cycle' = cycle + 1
    /\ UNCHANGED <<latest_prices_file, config, last_prices, email_enabled>>
    /\ UNCHANGED <<price_vars, scrape_vars, site_vars, cycle_vars, conf_vars>>

\* send_email_alert called on its own, with no alerts or with the latest ones
SendEmailAlert ==
    /\ \E alerts_arg \in {<<>>, alerts}, smtp \in SmtpOutcomes :
          LET sent == send_email_alert(alerts_arg, smtp)
          IN  /\ mail_server' = mail_server \o sent.sessions
              /\ send_result' = sent.result
              /\ notify_call' = [op |-> "send_email_alert", arg |-> alerts_arg]
    /\ UNCHANGED <<email_enabled, alert_log, process_result, passed>>
    /\ UNCHANGED <<alert_vars, price_vars, scrape_vars, site_vars, cycle_vars, conf_vars>>

\* save_alert_log called on its own, with no alerts or with the latest ones
SaveAlertLog ==
    /\ Len(passed) < MaxSaves
    /\ \E alerts_arg \in {<<>>, alerts} :
          /\ alert_log' = save_alert_log(alerts_arg)
          /\ passed' = Append(passed, alerts_arg)
          /\ notify_call' = [op |-> "save_alert_log", arg |-> alerts_arg]
    /\ UNCHANGED <<email_enabled, mail_server, send_result, process_result>>
    /\ UNCHANGED <<alert_vars, price_vars, scrape_vars, site_vars, cycle_vars, conf_vars>>

NextNotify == ProcessAlerts \/ SendEmailAlert \/ SaveAlertLog

SpecNotify == InitNotify /\ [][NextNotify]_vars

-----------------------------------------------------------------------------
(* SpecPrice: a price is formatted for display and the display text parsed *)

AlertIdle ==
    /\ latest_prices_file = [status |-> "missing", prices |-> <<>>]
    /\ config = [thresholds |-> [percentage_drop |-> Num(5), absolute_drop |-> Num(20)],
                 target_prices |-> <<>>]
    /\ last_prices = <<>>
    /\ current_prices = <<>>
    /\ alerts = <<>>
    /\ cycle = 0

InitPrice ==
    /\ AlertIdle
    /\ ScrapeIdle
    /\ SiteIdle
    /\ CycleIdle
    /\ price_in \in PriceInputs
    /\ price_text = <<>>
    /\ price_out = [ok |-> FALSE, value |-> Num(0)]
    /\ ppc = "start"
    /\ NotifyIdle
    /\ ConfIdle

FormatPrice ==
    /\ ppc = "start"
    /\ price_text' = _format_price(price_in)
    /\ ppc' = "formatted"
    /\ UNCHANGED <<price_in, price_out>>
    /\ UNCHANGED <<alert_vars, scrape_vars, site_vars, cycle_vars, notify_vars, conf_vars>>

ParsePrice ==
    /\ ppc = "formatted"
    /\ price_out' = _parse_price(price_text)
    /\ ppc' = "parsed"
    /\ UNCHANGED <<price_in, price_text>>
    /\ UNCHANGED <<alert_vars, scrape_vars, site_vars, cycle_vars, notify_vars, conf_vars>>

NextPrice == FormatPrice \/ ParsePrice

SpecPrice == InitPrice /\ [][NextPrice]_vars

-----------------------------------------------------------------------------
(* SpecParse: _parse_price is handed a price text *)

InitParse ==
    /\ AlertIdle
    /\ ScrapeIdle
    /\ SiteIdle
    /\ CycleIdle
    /\ price_in = Num(0)
    /\ price_text \in ParseTexts
    /\ price_out = [ok |-> FALSE, value |-> Num(0)]
    /\ ppc = "text"
    /\ NotifyIdle
    /\ ConfIdle

ParseText ==
    /\ ppc = "text"
    /\ price_out' = _parse_price(price_text)
    /\ ppc' = "text_parsed"
    /\ UNCHANGED <<price_in, price_text>>
    /\ UNCHANGED <<alert_vars, scrape_vars, site_vars, cycle_vars, notify_vars, conf_vars>>

NextParse == ParseText

SpecParse == InitParse /\ [][NextParse]_vars

-----------------------------------------------------------------------------
(* SpecSite: a site variant is run on a fetched page *)

InitSite ==
    /\ AlertIdle
    /\ PriceIdle
    /\ ScrapeIdle
    /\ CycleIdle
    /\ page \in Pages
    /\ site_result = NoSiteResult
    /\ NotifyIdle
    /\ ConfIdle

ScrapeAmazon ==
    /\ site_result = NoSiteResult
    /\ site_result' = scrape_amazon(page)
    /\ UNCHANGED page
    /\ UNCHANGED <<alert_vars, price_vars, scrape_vars, cycle_vars, notify_vars, conf_vars>>

ScrapePhoneclick ==
    /\ site_result = NoSiteResult
    /\ site_result' = scrape_phoneclick(page)
    /\ UNCHANGED page
    /\ UNCHANGED <<alert_vars, price_vars, scrape_vars, cycle_vars, notify_vars, conf_vars>>

ScrapeTeknozone ==
    /\ site_result = NoSiteResult
    /\ site_result' = scrape_teknozone(page)
    /\ UNCHANGED page
    /\ UNCHANGED <<alert_vars, price_vars, scrape_vars, cycle_vars, notify_vars, conf_vars>>

NextSite == ScrapeAmazon \/ ScrapePhoneclick \/ ScrapeTeknozone

SpecSite == InitSite /\ [][NextSite]_vars

-----------------------------------------------------------------------------
(* SpecScrape: PriceTracker.scrape_all_sites, one task per loaded scraper *)

InitScrape ==
    /\ AlertIdle
    /\ PriceIdle
    /\ SiteIdle
    /\ CycleIdle
    /\ scrapers \in ScraperLists
    /\ settings \in SettingsSet
    /\ spc = "idle"
    /\ tasks = <<>>
    /\ valid_results = <<>>
    /\ metrics = [successes |-> 0, failures |-> 0]
    /\ metrics_start = [successes |-> 0, failures |-> 0]
    /\ warnings = {}
    /\ scycle = 0
    /\ NotifyIdle
    /\ ConfIdle

ScraperKeys == {scrapers[i] : i \in 1..Len(scrapers)}

\* what the site delivered to a task so far
NoOutcome == [pre |-> "ok", fetch |-> "unset", title |-> Unset, price |-> Unset]

Finish(k, outcome) ==
    LET result == _scrape_single_site(k, outcome.pre, outcome.fetch, outcome.title,
                                      outcome.price)
    IN  /\ tasks' = [tasks EXCEPT ![k] = [pc |-> "done", result |-> result,
                                          outcome |-> outcome]]
        /\ warnings' = warnings \cup scraper_warning(k, result) \cup tracker_warning(k, result)

\* scrape_all_sites with no scraper loaded: logs and returns []
ScrapeNoScrapers ==
    /\ spc \in {"idle", "done"} /\ scycle < MaxScrapeCycles
    /\ scrape_all_sites_called
    /\ scrapers = <<>>
    /\ valid_results' = <<>>
    /\ spc' = "done"
    /\ metrics_start' = metrics
    /\ warnings' = {}
    /\ scycle' = scycle + 1
    /\ UNCHANGED <<scrapers, settings, tasks, metrics>>
    /\ UNCHANGED <<alert_vars, price_vars, site_vars, cycle_vars, notify_vars, conf_vars>>

\* scrape_all_sites up to the await of gather: one task per scraper
CreateTasks ==
    /\ spc \in {"idle", "done"} /\ scycle < MaxScrapeCycles
    /\ scrape_all_sites_called
    /\ scrapers # <<>>
    /\ tasks' = [k \in ScraperKeys |->
                    [pc |-> "sleeping", result |-> NoneResult, outcome |-> NoOutcome]]
    /\ valid_results' = <<>>
    /\ spc' = "gathering"
    /\ metrics_start' = metrics
    /\ warnings' = {}
    /\ scycle' = scycle + 1
    /\ UNCHANGED <<scrapers, settings, metrics>>
    /\ UNCHANGED <<alert_vars, price_vars, site_vars, cycle_vars, notify_vars, conf_vars>>

\* _scrape_single_site up to scraper.scrape(): the random delay
TaskDelay(k) ==
    /\ spc = "gathering" /\ tasks[k].pc = "sleeping"
    /\ \/ /\ tasks' = [tasks EXCEPT ![k].pc = "fetching"]
          /\ UNCHANGED warnings
       \/ Finish(k, [tasks[k].outcome EXCEPT !.pre = "unexpected error"])
    /\ UNCHANGED <<scrapers, settings, spc, valid_results, metrics, metrics_start, scycle>>
    /\ UNCHANGED <<alert_vars, price_vars, site_vars, cycle_vars, notify_vars, conf_vars>>

\* scrape(): _fetch_page
TaskFetch(k) ==
    /\ spc = "gathering" /\ tasks[k].pc = "fetching"
    /\ \E fetch \in FetchOutcomes :
          LET outcome == [tasks[k].outcome EXCEPT !.fetch = fetch]
          IN  IF fetch = "ok"
              THEN /\ tasks' = [tasks EXCEPT ![k].pc = "title", ![k].outcome = outcome]
                   /\ UNCHANGED warnings
              ELSE Finish(k, outcome)
    /\ UNCHANGED <<scrapers, settings, spc, valid_results, metrics, metrics_start, scycle>>
    /\ UNCHANGED <<alert_vars, price_vars, site_vars, cycle_vars, notify_vars, conf_vars>>

\* scrape(): _extract_title
TaskTitle(k) ==
    /\ spc = "gathering" /\ tasks[k].pc = "title"
    /\ \E title \in TitleOutcomes :
          LET outcome == [tasks[k].outcome EXCEPT !.title = title]
          IN  IF title.raised
              THEN Finish(k, outcome)
              ELSE /\ tasks' = [tasks EXCEPT ![k].pc = "price", ![k].outcome = outcome]
                   /\ UNCHANGED warnings
    /\ UNCHANGED <<scrapers, settings, spc, valid_results, metrics, metrics_start, scycle>>
    /\ UNCHANGED <<alert_vars, price_vars, site_vars, cycle_vars, notify_vars, conf_vars>>

\* scrape(): _extract_price, validation and the result; then the range check of
\* _scrape_single_site
TaskPrice(k) ==
    /\ spc = "gathering" /\ tasks[k].pc = "price"
    /\ \E price \in PriceOutcomes :
          Finish(k, [tasks[k].outcome EXCEPT !.price = price])
    /\ UNCHANGED <<scrapers, settings, spc, valid_results, metrics, metrics_start, scycle>>
    /\ UNCHANGED <<alert_vars, price_vars, site_vars, cycle_vars, notify_vars, conf_vars>>

\* scrape_all_sites after gather: classification, metrics, return
Gather ==
    /\ spc = "gathering" /\ gather_ready
    /\ LET c == classify([i \in 1..Len(scrapers) |-> tasks[scrapers[i]].result])
       IN  /\ valid_results' = c.valid
           /\ metrics' = [successes |-> metrics.successes + c.successes,
                          failures |-> metrics.failures + c.failures]
    /\ spc' = "done"
    /\ UNCHANGED <<scrapers, settings, tasks, metrics_start, warnings, scycle>>
    /\ UNCHANGED <<alert_vars, price_vars, site_vars, cycle_vars, notify_vars, conf_vars>>

NextScrape ==
    \/ ScrapeNoScrapers
    \/ CreateTasks
    \/ \E k \in DOMAIN tasks : TaskDelay(k)
    \/ \E k \in DOMAIN tasks : TaskFetch(k)
    \/ \E k \in DOMAIN tasks : TaskTitle(k)
    \/ \E k \in DOMAIN tasks : TaskPrice(k)
    \/ Gather

SpecScrape == InitScrape /\ [][NextScrape]_vars

-----------------------------------------------------------------------------
(* SpecCycle: main() runs one tracking cycle *)

InitCycle ==
    /\ AlertIdle
    /\ PriceIdle
    /\ SiteIdle
    /\ config_file \in {f \in ConfigFiles : Len(f.sites) <= MaxCycleScrapers}
    /\ config_manager = NoManager
    /\ conf_call = ""
    /\ load_error = ""
    /\ loads = 0
    /\ scrapers = <<>>
    /\ settings \in SettingsSet
    /\ spc = "off"
    /\ tasks = <<>>
    /\ valid_results = <<>>
    /\ metrics = [successes |-> 0, failures |-> 0]
    /\ metrics_start = [successes |-> 0, failures |-> 0]
    /\ warnings = {}
    /\ scycle = 0
    /\ rpc = "start"
    /\ report = NoReport
    /\ save_calls = <<>>
    /\ exit_code = -1
    /\ NotifyIdle

\* main(): PriceTracker() is constructed, or raises and main returns 1.
\* __init__ calls get_config_manager, PriceStorage, _setup_logging and
\* _load_scrapers in this order; PriceStorage and the log directory are
\* outside this model and either of them may raise.
MainConstruct ==
    /\ rpc = "start"
    /\ LET got == get_config_manager(config_file)
       IN  /\ config_manager' = got.config_manager
           /\ conf_call' = "get_config_manager"
           /\ load_error' = got.error
           /\ loads' = loads + 1
           /\ IF got.error # ""
              THEN /\ rpc' = "exited"
                   /\ exit_code' = 1
                   /\ UNCHANGED scrapers
              ELSE \/ \E importable \in SUBSET scraper_mapping :
                        /\ scrapers' = _load_scrapers(get_enabled_sites(got.config_manager),
                                                      importable)
                        /\ rpc' = "ready"
                        /\ UNCHANGED exit_code
                   \/ /\ rpc' = "exited"
                      /\ exit_code' = 1
                      /\ UNCHANGED scrapers
    /\ UNCHANGED <<config_file, report, save_calls>>
    /\ UNCHANGED <<settings, spc, tasks, valid_results, metrics, metrics_start,
                   warnings, scycle>>
    /\ UNCHANGED <<alert_vars, price_vars, site_vars, notify_vars>>

\* run_tracking_cycle up to the await of scrape_all_sites
RunTrackingCycle ==
    /\ rpc = "ready"
    /\ rpc' = "scraping"
    /\ spc' = "idle"
    /\ UNCHANGED <<report, save_calls, exit_code>>
    /\ UNCHANGED <<scrapers, settings, tasks, valid_results, metrics, metrics_start,
                   warnings, scycle>>
    /\ UNCHANGED <<alert_vars, price_vars, site_vars, notify_vars, conf_vars>>

\* run_tracking_cycle after scrape_all_sites returned: storage.save_results
\* when there are results, then the report; an exception that left the call
\* would reach main()'s handler, which returns 1
CycleReturn ==
    /\ rpc = "scraping" /\ spc = "done"
    /\ \E saved \in BOOLEAN :
          LET r == run_tracking_cycle(valid_results, saved)
          IN  /\ save_calls' = IF valid_results = <<>> THEN save_calls
                               ELSE Append(save_calls,
                                           [results |-> valid_results, raised |-> ~saved])
              /\ report' = r
              /\ rpc' = IF r.raised THEN "exited" ELSE "returned"
              /\ exit_code' = IF r.raised THEN 1 ELSE exit_code
    /\ UNCHANGED <<alert_vars, price_vars, scrape_vars, site_vars, notify_vars, conf_vars>>

\* main() after run_tracking_cycle returned: print_summary, then the exit code
MainExit ==
    /\ rpc = "returned"
    /\ exit_code' = IF report.success THEN 0 ELSE 1
    /\ rpc' = "exited"
    /\ UNCHANGED <<report, save_calls>>
    /\ UNCHANGED <<alert_vars, price_vars, scrape_vars, site_vars, notify_vars, conf_vars>>

NextCycle ==
    \/ MainConstruct
    \/ RunTrackingCycle
    \/ ScrapeNoScrapers
    \/ CreateTasks
    \/ \E k \in DOMAIN tasks : TaskDelay(k)
    \/ \E k \in DOMAIN tasks : TaskFetch(k)
    \/ \E k \in DOMAIN tasks : TaskTitle(k)
    \/ \E k \in DOMAIN tasks : TaskPrice(k)
    \/ Gather
    \/ CycleReturn
    \/ MainExit

SpecCycle == InitCycle /\ [][NextCycle]_vars

-----------------------------------------------------------------------------
(* SpecConfig: the configuration is loaded and reloaded while the file changes *)

InitConfig ==
    /\ AlertIdle
    /\ PriceIdle
    /\ ScrapeIdle
    /\ SiteIdle
    /\ CycleIdle
    /\ NotifyIdle
    /\ config_file \in ConfigFiles
    /\ config_manager = NoManager
    /\ conf_call = ""
    /\ load_error = ""
    /\ loads = 0

\* the file is edited, removed or damaged on disk
EditConfigFile ==
    /\ \E file \in ConfigFiles \ {config_file} : config_file' = file
    /\ UNCHANGED <<config_manager, conf_call, load_error, loads>>
    /\ UNCHANGED <<alert_vars, price_vars, scrape_vars, site_vars, cycle_vars, notify_vars>>

\* get_config_manager(): loads the file only while no instance is stored
GetConfigManager ==
    /\ loads < MaxLoads
    /\ LET got == get_config_manager(config_file)
       IN  /\ config_manager' = got.config_manager
           /\ load_error' = got.error
    /\ conf_call' = "get_config_manager"
    /\ loads' = IF config_manager.installed THEN loads ELSE loads + 1
    /\ UNCHANGED config_file
    /\ UNCHANGED <<alert_vars, price_vars, scrape_vars, site_vars, cycle_vars, notify_vars>>

\* ConfigManager.reload_config() on the stored instance: load_config again
ReloadConfig ==
    /\ loads < MaxLoads
    /\ config_manager.installed
    /\ LET loaded == load_config(config_manager.sites, config_file)
       IN  /\ config_manager' = [config_manager EXCEPT !.sites = loaded.sites]
           /\ load_error' = loaded.error
    /\ conf_call' = "ConfigManager.reload_config"
    /\ loads' = loads + 1
    /\ UNCHANGED config_file
    /\ UNCHANGED <<alert_vars, price_vars, scrape_vars, site_vars, cycle_vars, notify_vars>>

\* the module-level reload_config(): a new instance replaces the stored one
\* when its constructor returns
ModuleReloadConfig ==
    /\ loads < MaxLoads
    /\ LET made == ConfigManager(config_file)
       IN  /\ config_manager' = IF made.error # "" THEN config_manager
                                ELSE [installed |-> TRUE, sites |-> made.sites]
           /\ load_error' = made.error
    /\ conf_call' = "reload_config"
    /\ loads' = loads + 1
    /\ UNCHANGED config_file
    /\ UNCHANGED <<alert_vars, price_vars, scrape_vars, site_vars, cycle_vars, notify_vars>>

NextConfig == EditConfigFile \/ GetConfigManager \/ ReloadConfig \/ ModuleReloadConfig

SpecConfig == InitConfig /\ [][NextConfig]_vars

-----------------------------------------------------------------------------
(* Claims about the alert evaluator, stated on the latest call *)

Entries == {current_prices[i] : i \in 1..Len(current_prices)}

Current(e) == parse_price(e.price)

Baseline(e) == IF e.site \in DOMAIN last_prices THEN last_prices[e.site] ELSE Num(0)

Target(e) ==
    IF e.site \in DOMAIN config.target_prices THEN config.target_prices[e.site] ELSE Num(0)

NonZero(e) == Baseline(e).num # 0 /\ Current(e).num # 0

\* the alerts returned for an entry: same site, same price text
AlertsFor(e) ==
    {alerts[k] : k \in {n \in 1..Len(alerts) :
                          alerts[n].site = e.site /\ alerts[n].price_formatted = e.price}}

HasReason(e, r) == \E a \in AlertsFor(e) : \E k \in 1..Len(a.reasons) : a.reasons[k] = r

Dropped(e) == RLt(Current(e), Baseline(e))

\* (previous - current) * 100 >= threshold * previous
PercentageMet(e) ==
    LET drop == RSub(Baseline(e), Current(e))
    IN  config.thresholds.percentage_drop.num * Baseline(e).num * drop.den
            <= 100 * drop.num * config.thresholds.percentage_drop.den * Baseline(e).den

AbsoluteMet(e) == RLe(config.thresholds.absolute_drop, RSub(Baseline(e), Current(e)))

TargetMet(e) == Target(e).num > 0 /\ RLe(Current(e), Target(e))

\* the rules the spec says fire for an entry that is not skipped
Fired(e) ==
    {r \in {"percentage_drop"} : Dropped(e) /\ PercentageMet(e)}
    \cup {r \in {"absolute_drop"} : Dropped(e) /\ AbsoluteMet(e)}
    \cup {r \in {"target_reached"} : TargetMet(e)}

\* C1: an entry whose site has no baseline (the latest-prices file missing or
\* unreadable included), or whose baseline or parsed current price is zero,
\* gets no alert, whatever the thresholds and the target price.
C1_NoBaselineNoAlert ==
    /\ \A e \in Entries :
          (e.site \notin DOMAIN last_prices \/ Baseline(e).num = 0 \/ Current(e).num = 0)
              => AlertsFor(e) = {}
    /\ latest_prices_file.status # "ok" => last_prices = <<>> /\ alerts = <<>>

\* C1 witness: a reading at or below its positive target is evaluated with no
\* baseline for its site, another with a zero current price against a
\* non-zero baseline, and nothing is returned.
C1_Witness ==
    /\ cycle >= 1
    /\ \E e \in Entries : e.site \notin DOMAIN last_prices /\ TargetMet(e) /\ Current(e).num # 0
    /\ \E e \in Entries : Baseline(e).num # 0 /\ Current(e).num = 0
    /\ alerts = <<>>

\* C2: for non-zero previous and current prices the percentage-drop reason is
\* present exactly when previous > current and the drop is at least the
\* percentage threshold, the absolute-drop reason exactly when previous >
\* current and the drop is at least the absolute threshold; a drop equal to a
\* threshold fires and an unchanged price fires neither.
C2_DropRules ==
    \A e \in Entries :
        NonZero(e) =>
            /\ HasReason(e, "percentage_drop") <=> (Dropped(e) /\ PercentageMet(e))
            /\ HasReason(e, "absolute_drop") <=> (Dropped(e) /\ AbsoluteMet(e))
            /\ Current(e) = Baseline(e) =>
                   ~HasReason(e, "percentage_drop") /\ ~HasReason(e, "absolute_drop")

\* C2 witness: one entry drops by exactly both thresholds (400 to 380 under 5%
\* and 20) and carries both reasons, another is unchanged and carries neither.
C2_Witness ==
    /\ \E e \in Entries :
          /\ NonZero(e) /\ Dropped(e)
          /\ RSub(Baseline(e), Current(e)) = config.thresholds.absolute_drop
          /\ RMul(RSub(Baseline(e), Current(e)), Num(100))
                 = RMul(config.thresholds.percentage_drop, Baseline(e))
          /\ HasReason(e, "percentage_drop") /\ HasReason(e, "absolute_drop")
    /\ \E e \in Entries :
          /\ NonZero(e) /\ Current(e) = Baseline(e)
          /\ ~HasReason(e, "percentage_drop") /\ ~HasReason(e, "absolute_drop")

\* C3 as stated: where a non-zero baseline exists, the target-reached reason
\* is present exactly when a positive target is configured and current <=
\* target, so every cycle whose current price is at or below the target yields
\* an alert carrying it.
C3_TargetEveryCycle_AsStated ==
    \A e \in Entries :
        Baseline(e).num # 0 => (HasReason(e, "target_reached") <=> TargetMet(e))

\* C3 amended: for an entry with non-zero baseline and non-zero current price
\* the target-reached reason is present exactly when a positive target is
\* configured and current <= target, whether or not the price dropped, and this
\* holds in every cycle (no suppression after the first notification).
C3_TargetEveryCycle ==
    \A e \in Entries :
        NonZero(e) => (HasReason(e, "target_reached") <=> TargetMet(e))

\* C3 witness: in a second or later cycle of the instance a reading that did
\* not drop below its baseline is at or below target and is alerted for it.
C3_Witness ==
    /\ cycle >= 2
    /\ \E e \in Entries :
          NonZero(e) /\ ~Dropped(e) /\ TargetMet(e) /\ HasReason(e, "target_reached")

AlertingEntry(e) == NonZero(e) /\ Fired(e) # {}

ReasonSet(a) == {a.reasons[k] : k \in 1..Len(a.reasons)}

\* C4: the alerts are returned in input order, at most one per entry; an entry
\* has an alert exactly when at least one rule fired for it, every alert has a
\* non-empty reasons list, and all the rules that fired are in that one alert.
C4_OneAlertPerEntry ==
    LET expected == SelectSeq(current_prices, AlertingEntry)
    IN  /\ Len(alerts) <= Len(current_prices)
        /\ Len(alerts) = Len(expected)
        /\ \A k \in 1..Len(alerts) :
              /\ k <= Len(expected)
              /\ alerts[k].site = expected[k].site
              /\ alerts[k].price_formatted = expected[k].price
              /\ alerts[k].reasons # <<>>
              /\ ReasonSet(alerts[k]) = Fired(expected[k])
              /\ Len(alerts[k].reasons) = Cardinality(Fired(expected[k]))

\* C4 witness: two entries alert, Phoneclick before Amazon as in the input,
\* and one alert carries the percentage and the absolute reason together.
C4_Witness ==
    /\ Len(current_prices) = 2 /\ Len(alerts) = 2
    /\ alerts[1].site = "Phoneclick.it" /\ alerts[2].site = "Amazon.it"
    /\ \E k \in 1..2 : {"percentage_drop", "absolute_drop"} \subseteq ReasonSet(alerts[k])

\* C5 as stated: a current price strictly above the previous one (both
\* non-zero) yields no alert, for every configuration.
C5_RiseNoAlert_AsStated ==
    \A e \in Entries :
        (NonZero(e) /\ RLt(Baseline(e), Current(e))) => AlertsFor(e) = {}

\* C5 amended: a current price strictly above the previous one (both non-zero)
\* yields neither drop reason; it yields an alert exactly when a positive
\* target is configured and current <= target, with target-reached as the
\* only reason.
C5_RiseNoDropReason ==
    \A e \in Entries :
        (NonZero(e) /\ RLt(Baseline(e), Current(e))) =>
            /\ ~HasReason(e, "percentage_drop") /\ ~HasReason(e, "absolute_drop")
            /\ AlertsFor(e) # {} <=> TargetMet(e)
            /\ \A a \in AlertsFor(e) : a.reasons = <<"target_reached">>

\* C5 witness: a price that rose by more than the absolute threshold is
\* at or below its target and is alerted for the target only.
C5_Witness ==
    \E e \in Entries :
        /\ NonZero(e) /\ RLt(Baseline(e), Current(e))
        /\ RLe(config.thresholds.absolute_drop, RSub(Current(e), Baseline(e)))
        /\ \E a \in AlertsFor(e) : a.reasons = <<"target_reached">>

\* the reading of a site in a list of readings: its last entry for the site
ReadingOf(prices, site) ==
    LET last == CHOOSE i \in 1..Len(prices) :
                    /\ prices[i].site = site
                    /\ \A j \in (i + 1)..Len(prices) : prices[j].site # site
    IN  parse_price(prices[last].price)

\* C6: from the second cycle of an instance on, the baseline a site's current
\* price is compared against is the site's price in the immediately preceding
\* cycle.
C6_BaselineIsPrecedingCycle ==
    [][(cycle >= 1 /\ cycle' = cycle + 1) =>
          \A i \in 1..Len(current_prices') :
              LET site == current_prices'[i].site
              IN  (\E j \in 1..Len(current_prices) : current_prices[j].site = site) =>
                      /\ site \in DOMAIN last_prices'
                      /\ last_prices'[site] = ReadingOf(current_prices, site)]_vars

-----------------------------------------------------------------------------
(* Claims about the scraping cycle *)

\* the site delivered everything a reading needs: the page, a non-empty
\* title, a non-empty price text and a positive price, and nothing raised
Delivered(o) ==
    /\ o.pre = "ok" /\ o.fetch = "ok"
    /\ ~o.title.raised /\ o.title.text # <<>>
    /\ ~o.price.raised /\ o.price.text # <<>> /\ o.price.numeric.num > 0

\* the failure happened inside BaseScraper.scrape
FailedInScrape(o) == o.pre = "ok" /\ ~Delivered(o)

SucceededKeys == SelectSeq(scrapers, LAMBDA k : Delivered(tasks[k].outcome))

\* C7: a failure of any kind in one site's attempt never aborts or alters the
\* other sites' attempts: scrape turns the failure into a result with
\* success = false, and scrape_all_sites returns exactly the results of the
\* sites that succeeded.
C7_FailuresAreIsolated ==
    /\ \A k \in DOMAIN tasks :
          tasks[k].pc = "done" =>
              /\ FailedInScrape(tasks[k].outcome) =>
                     tasks[k].result.kind = "result" /\ ~tasks[k].result.success
              /\ Delivered(tasks[k].outcome) =>
                     /\ tasks[k].result.kind = "result" /\ tasks[k].result.success
                     /\ tasks[k].result.site = SiteName(k)
                     /\ tasks[k].result.price_numeric = tasks[k].outcome.price.numeric
    /\ (spc = "done" /\ scrapers # <<>>) =>
          /\ Len(valid_results) = Len(SucceededKeys)
          /\ \A i \in 1..Len(valid_results) :
                i <= Len(SucceededKeys) => valid_results[i] = tasks[SucceededKeys[i]].result

\* C7 witness: a call has returned in which the first site failed to fetch,
\* another failed in extraction and a third succeeded and is the one returned.
C7_Witness ==
    /\ spc = "done" /\ Len(scrapers) = 3
    /\ tasks[scrapers[1]].outcome.fetch \in {"HTTP 503", "timeout", "connection error"}
    /\ tasks[scrapers[2]].outcome.price.raised
    /\ Delivered(tasks[scrapers[3]].outcome)
    /\ Len(valid_results) = 1 /\ valid_results[1].site = SiteName(scrapers[3])

\* C8: one task is started per loaded scraper and the results are classified
\* only after every task has finished, whatever the interleaving; each
\* scraper contributes one outcome per call, so successes plus failures grow
\* by the number of scrapers and the returned list is no longer than that.
C8_JoinThenClassify ==
    /\ spc = "gathering" =>
          /\ DOMAIN tasks = ScraperKeys
          /\ Cardinality(DOMAIN tasks) = Len(scrapers)
          /\ valid_results = <<>>
          /\ metrics = metrics_start
    /\ spc = "done" =>
          /\ \A k \in DOMAIN tasks : tasks[k].pc = "done"
          /\ metrics.successes + metrics.failures
                 = metrics_start.successes + metrics_start.failures + Len(scrapers)
          /\ metrics.successes = metrics_start.successes + Len(valid_results)
          /\ Len(valid_results) <= Len(scrapers)

\* C8 witness: a second call over three scrapers has returned with a success
\* and a failure among its outcomes.
C8_Witness ==
    /\ spc = "done" /\ scycle = 2 /\ Len(scrapers) = 3
    /\ metrics.successes > metrics_start.successes
    /\ metrics.failures > metrics_start.failures

Results == {tasks[k].result : k \in {t \in DOMAIN tasks : tasks[t].result.kind = "result"}}

\* C9: every result of scrape with success = true has price_numeric > 0; a
\* result with price_numeric <= 0, every failed_result included, has
\* success = false.
C9_SuccessHasPositivePrice ==
    /\ \A r \in Results :
          /\ r.success => r.price_numeric.num > 0
          /\ r.price_numeric.num <= 0 => ~r.success
    /\ \A i \in 1..Len(valid_results) : valid_results[i].price_numeric.num > 0

\* C9 witness: one site delivered a title and a price text with a price of
\* zero and its result is a failure, another delivered a positive price and
\* its result is a success.
C9_Witness ==
    /\ \E k \in DOMAIN tasks :
          /\ tasks[k].pc = "done" /\ tasks[k].outcome.fetch = "ok"
          /\ tasks[k].outcome.title.text # <<>> /\ tasks[k].outcome.price.text # <<>>
          /\ ~tasks[k].outcome.price.raised /\ tasks[k].outcome.price.numeric.num = 0
          /\ tasks[k].result.kind = "result" /\ ~tasks[k].result.success
    /\ \E r \in Results : r.success /\ r.price_numeric.num > 0

-----------------------------------------------------------------------------
(* Claims about the price text functions *)

\* C10: for every positive price with two fractional digits, below 1 and from
\* 1000 up included, parsing the display text produced for it returns it.
C10_FormatParseRoundTrip ==
    ppc = "parsed" => price_out.ok /\ price_out.value = price_in

\* C10 witness: a price of 1000 or more, whose display text carries a
\* thousands separator, has been formatted and parsed back.
C10_Witness ==
    /\ ppc = "parsed"
    /\ price_in.num >= 1000 * price_in.den
    /\ Contains(price_text, ".") /\ Contains(price_text, ",")
    /\ price_out.ok /\ price_out.value = price_in

\* the price formatted, in whole euros and in the hundredths left over
WholeEuros == price_in.num \div price_in.den

Hundredths == ((price_in.num % price_in.den) * 100) \div price_in.den

TwoDigits(n) == <<Digits[(n \div 10) + 1], Digits[(n % 10) + 1]>>

\* the display text between the euro symbol and the decimal comma
IntegerPart == SubSeq(price_text, 2, Len(price_text) - 3)

\* C11 as stated: the display text of a non-negative price is the euro symbol,
\* the integer part written without any thousands grouping, a comma and
\* exactly two fractional digits, prices of 1000 and more included.
C11_NoThousandsGrouping_AsStated ==
    ppc # "start" =>
        price_text = <<"€">> \o IntText(WholeEuros) \o <<",">> \o TwoDigits(Hundredths)

\* C11 amended: the display text is the euro symbol, the integer part written
\* with a '.' before every group of three digits counted from the right (so
\* ungrouped below 1000), a comma and exactly two fractional digits.
C11_DotGroupedDisplay ==
    ppc # "start" =>
        /\ Len(price_text) >= 5 /\ price_text[1] = "€"
        /\ SubSeq(price_text, Len(price_text) - 2, Len(price_text))
               = <<",">> \o TwoDigits(Hundredths)
        /\ Replace(IntegerPart, ".", <<>>) = IntText(WholeEuros)
        /\ \A i \in 1..Len(IntegerPart) :
               IntegerPart[i] = "." <=> (Len(IntegerPart) - i + 1) % 4 = 0

\* C11 witness: 1234567.89 has been formatted as "€1.234.567,89".
C11_Witness ==
    /\ ppc # "start"
    /\ price_in = Cents(123456789)
    /\ price_text = <<"€", "1", ".", "2", "3", "4", ".", "5", "6", "7", ",", "8", "9">>

-----------------------------------------------------------------------------
(* Claims about _parse_price on arbitrary price texts *)

HasDigit(s) == \E i \in 1..Len(s) : IsDigit(s[i])

AllDigits(s, i, j) == i <= j /\ \A k \in i..j : IsDigit(s[k])

\* C12: _parse_price raises exactly when the text is empty or holds no digit;
\* every text with at least one digit yields a number, whichever pattern
\* ends up matching.
C12_FailsIffNoDigit ==
    ppc = "text_parsed" => (price_out.ok <=> HasDigit(price_text))

\* C12 witness: "1.234.567", on which the first two patterns match a text
\* float() rejects, has been parsed to the 1.23 of the third pattern.
C12_Witness ==
    /\ ppc = "text_parsed"
    /\ price_text = <<"1", ".", "2", "3", "4", ".", "5", "6", "7">>
    /\ price_out.ok /\ price_out.value = Cents(123)

\* the text is one to three digits, one separator, digits
SingleSeparator(s, n) ==
    /\ n \in 1..3 /\ Len(s) >= n + 2
    /\ AllDigits(s, 1, n) /\ s[n + 1] \in {".", ","} /\ AllDigits(s, n + 2, Len(s))

\* C13: of a numeral with a single separator, '.' or ',' alike, the separator
\* is decimal when exactly two digits follow it, and a thousands separator
\* that is removed, giving the integer amount, when three digits follow it.
C13_SingleSeparator ==
    ppc = "text_parsed" =>
        \A n \in 1..3 :
            SingleSeparator(price_text, n) =>
                LET k == Len(price_text) - n - 1
                    a == DigitsValue(price_text, 1, n)
                    b == DigitsValue(price_text, n + 2, Len(price_text))
                IN  /\ k = 2 => price_out.ok /\ price_out.value = Frac(a * 100 + b, 100)
                    /\ k = 3 => price_out.ok /\ price_out.value = Num(a * 1000 + b)

\* C14: a text that is a bare run of digits of any length parses to the
\* integer value of the whole run.
C14_BareDigitRun ==
    ppc = "text_parsed" =>
        (AllDigits(price_text, 1, Len(price_text)) =>
            price_out.ok /\ price_out.value = Num(DigitsValue(price_text, 1, Len(price_text))))

-----------------------------------------------------------------------------
(* Claims about the site variants *)

\* the page answered with 200 and holds the title and the price container
PageOk == page.status = 200 /\ page.title_found /\ page.container.found

Ran(site) == site_result.site = site

\* the lists of amounts the container text of the page is made of
ShownAmounts == {amts \in AmountLists : JoinAmounts(amts) = page.container.text}

LastOf(amts) == amts[Len(amts)]

EuroPrefixed(a) == a[1] = "€"

\* the euro symbol, then digits, one separator, digits
DecimalAmounts == {A599, A480, E480}

\* an amount without its euro symbol and blank
AmountNumeral(a) == SelectSeq(a, LAMBDA c : c \notin {"€", " "})

IsPrefix(t, u) == Len(t) <= Len(u) /\ SubSeq(u, 1, Len(t)) = t

C16_EveryVariantLastAmount ==
    site_result # NoSiteResult /\ PageOk =>
        \A amts \in ShownAmounts :
            Len(amts) >= 2 /\ (\A i \in 1..Len(amts) : amts[i] \in DecimalAmounts) =>
                /\ site_result.ok
                /\ site_result.price = <<"€">> \o AmountNumeral(LastOf(amts))

\* the digit runs of the texts the pages are made of
KnownRuns(a) ==
    CASE a = A599 -> <<<<"5", "9", "9">>, <<"0", "0">>>>
      [] a = A480 -> <<<<"4", "8", "0">>, <<"0", "0">>>>
      [] a = E480 -> <<<<"4", "8", "0">>, <<"0", "0">>>>
      [] a = W480 -> <<<<"4", "8", "0">>>>
      [] a = G1299 -> <<<<"1">>, <<"2", "9", "9">>, <<"0", "0">>>>
      [] a = P480 -> <<<<"4", "8", "0">>, <<"0", "0">>>>
      [] a = B486 -> <<<<"4", "8", "6">>>>
      [] a = <<"0", "0">> -> <<<<"0", "0">>>>
      [] OTHER -> <<<<"4", "8", "6">>, <<"0", "0">>>>

RECURSIVE RunsOfAll(_)
RunsOfAll(amts) ==
    IF amts = <<>> THEN <<>> ELSE KnownRuns(Head(amts)) \o RunsOfAll(Tail(amts))

\* what C17 says amazon.normalize_price makes of a text with these digit runs
EurosAndCents(runs) ==
    IF Len(runs) >= 2 THEN <<"€">> \o runs[1] \o <<",">> \o runs[2]
    ELSE <<"€">> \o runs[1] \o <<",", "0", "0">>

\* C17: on a text that holds the euro symbol, amazon.normalize_price returns
\* the euro symbol, the first digit run, a comma and the second digit run when
\* there are two or more runs (the others dropped), and the run followed by
\* ",00" when there is one; the first run is always the whole integer part.
C17_AmazonDigitRuns ==
    Ran("Amazon.it") /\ page.status = 200 /\ page.title_found =>
        /\ page.container.found =>
              \A amts \in ShownAmounts :
                  (\E i \in 1..Len(amts) : EuroPrefixed(amts[i])) =>
                      /\ site_result.ok
                      /\ site_result.price = EurosAndCents(RunsOfAll(amts))
        /\ ~page.container.found /\ page.fallback # <<>> =>
              /\ site_result.ok
              /\ site_result.price =
                     EurosAndCents(KnownRuns(page.fallback[1])
                                       \o (IF Len(page.fallback) >= 2
                                           THEN KnownRuns(page.fallback[2])
                                           ELSE <<<<"0", "0">>>>))

\* C17 witness: scrape_amazon found "€1.299,00" in a-offscreen and returned
\* "€1,299": the first run as euros, the second as cents, the third dropped.
C17_Witness ==
    /\ Ran("Amazon.it") /\ PageOk
    /\ page.container.text = G1299
    /\ site_result.ok /\ site_result.price = <<"€", "1", ",", "2", "9", "9">>

\* the located price text holds a numeral and no euro symbol
NumeralWithoutSymbol ==
    PageOk /\ HasDigit(page.container.text) /\ ~Contains(page.container.text, "€")

\* C18 as stated: in every site variant, a located price text with a numeral
\* and no currency symbol is handed to the normalizer and the extraction
\* completes with a price.
C18_MissingSymbolAccepted_AsStated ==
    site_result # NoSiteResult /\ NumeralWithoutSymbol =>
        site_result.ok /\ HasDigit(site_result.price)

\* C18 amended: a located price text with a numeral and no currency symbol
\* is accepted by the Amazon variant only, which completes with a
\* euro-prefixed price; the Teknozone variant aborts with "Formato prezzo non
\* valido" and the Phoneclick variant with "Formato prezzo non riconosciuto".
C18_MissingSymbolPerVariant ==
    NumeralWithoutSymbol =>
        /\ Ran("Amazon.it") =>
              site_result.ok /\ site_result.price[1] = "€" /\ HasDigit(site_result.price)
        /\ Ran("Teknozone.it") =>
              ~site_result.ok /\ site_result.error = "Formato prezzo non valido"
        /\ Ran("Phoneclick.it") =>
              ~site_result.ok /\ site_result.error = "Formato prezzo non riconosciuto"

\* C18 witness: scrape_teknozone located "480,00" and raised "Formato prezzo
\* non valido".
C18_Witness ==
    /\ Ran("Teknozone.it") /\ NumeralWithoutSymbol
    /\ page.container.text = P480
    /\ ~site_result.ok /\ site_result.error = "Formato prezzo non valido"

-----------------------------------------------------------------------------
(* Claims about the price range check *)

OutOfRange(price) == RLt(price, settings.min_price) \/ RLt(settings.max_price, price)

InValidResults(result) == \E i \in 1..Len(valid_results) : valid_results[i] = result

\* C19: a positive extracted price outside [min_price, max_price] only
\* produces a warning: scrape still returns success = true and the result is
\* in the list scrape_all_sites returns; both bounds are inclusive, a price
\* equal to one of them is in range and gives no warning.
C19_OutOfRangeOnlyWarns ==
    \A k \in DOMAIN tasks :
        tasks[k].pc = "done" /\ Delivered(tasks[k].outcome) =>
            LET price == tasks[k].outcome.price.numeric
            IN  /\ tasks[k].result.kind = "result" /\ tasks[k].result.success
                /\ tasks[k].result.price_numeric = price
                /\ spc = "done" => InValidResults(tasks[k].result)
                /\ <<k, "main">> \in warnings <=> OutOfRange(price)
                /\ <<k, "base_scraper">> \in warnings <=> OutOfRange(price)
                /\ validate_price(price) <=> ~OutOfRange(price)

\* C19 witness: a call has returned in which one site delivered 2500, above
\* max_price, and another exactly min_price: both results are returned, the
\* warning was logged for the first only.
C19_Witness ==
    /\ spc = "done"
    /\ \E k, j \in DOMAIN tasks :
          /\ Delivered(tasks[k].outcome) /\ Delivered(tasks[j].outcome)
          /\ tasks[k].outcome.price.numeric = Num(2500)
          /\ tasks[j].outcome.price.numeric = settings.min_price
          /\ InValidResults(tasks[k].result) /\ InValidResults(tasks[j].result)
          /\ <<k, "main">> \in warnings /\ <<j, "main">> \notin warnings

-----------------------------------------------------------------------------
(* Claims about main() and run_tracking_cycle *)

\* storage.save_results was called and completed
Persisted == save_calls # <<>> /\ ~save_calls[Len(save_calls)].raised

\* C20: run_tracking_cycle never raises; its report has success = true
\* exactly when at least one site succeeded and storage.save_results
\* completed without an exception; with no successful site it returns
\* success = false with empty results and never calls save_results; main's
\* exit code is 0 exactly when the report's success is true.
C20_CycleReport ==
    /\ rpc \in {"returned", "exited"} /\ spc = "done" =>
          /\ ~report.raised /\ "success" \in report.keys
          /\ report.success <=> (SucceededKeys # <<>> /\ Persisted)
          /\ report.success => report.results = valid_results
          /\ SucceededKeys = <<>> =>
                /\ ~report.success
                /\ "results" \in report.keys /\ report.results = <<>>
                /\ save_calls = <<>>
          /\ Len(save_calls) <= 1
    /\ rpc = "exited" => (exit_code = 0 <=> report.success)
    /\ rpc # "exited" => exit_code = -1

\* C20 witness: main() has returned 1 after a cycle in which a site succeeded
\* and storage.save_results raised.
C20_Witness ==
    /\ rpc = "exited" /\ exit_code = 1
    /\ spc = "done" /\ SucceededKeys # <<>>
    /\ save_calls # <<>> /\ save_calls[1].raised
    /\ ~report.success /\ "error" \in report.keys

-----------------------------------------------------------------------------
(* Claims about the configuration *)

\* the sites whose 'enabled' member is true or absent in a file
EnabledIn(file) ==
    {file.sites[i].key : i \in {j \in DOMAIN file.sites : file.sites[j].enabled # "false"}}

\* a readable file that lacks a required section or enables no site
InvalidConfig(file) ==
    /\ file.status = "ok"
    /\ \/ AllSections \ file.sections # {}
       \/ EnabledIn(file) = {}

\* C21: when the configuration file lacks one of the sections product, sites
\* and settings, or enables no site, startup fails with an error: no
\* ConfigManager is stored as the singleton, PriceTracker() raises, main()
\* returns 1, and no scraper is loaded and no scraping is started.
C21_InvalidConfigIsFatal ==
    (InvalidConfig(config_file) /\ rpc # "start") =>
        /\ load_error # ""
        /\ ~config_manager.installed
        /\ rpc = "exited" /\ exit_code = 1
        /\ scrapers = <<>>
        /\ spc = "off" /\ tasks = <<>> /\ scycle = 0
        /\ report = NoReport

\* C21 witness: main() has returned 1 on a file that has every section and
\* whose only site is disabled.
C21_Witness ==
    /\ rpc = "exited" /\ exit_code = 1
    /\ config_file = [status |-> "ok", sections |-> AllSections,
                      sites |-> <<[key |-> "amazon", enabled |-> "false"]>>]
    /\ load_error = "Nessun sito abilitato nella configurazione"
    /\ ~config_manager.installed

SetOf(keys) == {keys[i] : i \in DOMAIN keys}

\* C27: a ConfigManager.reload_config() call that succeeds leaves
\* get_enabled_sites() and is_site_enabled() reporting exactly the sites
\* enabled in the file it has just loaded.
C27_ReloadReplacesEnabledSites ==
    [][(conf_call' = "ConfigManager.reload_config" /\ loads' = loads + 1
        /\ load_error' = "") =>
          /\ SetOf(get_enabled_sites(config_manager')) = EnabledIn(config_file')
          /\ \A k \in ConfigKeys :
                is_site_enabled(config_manager', k) <=> k \in EnabledIn(config_file')]_vars

-----------------------------------------------------------------------------
(* Claims about what a tracking cycle reports and invokes *)

\* C25: the success_rate of a successful cycle counts the successful sites
\* against the number of sites enabled in the configuration.
C25_RateOverEnabledSites ==
    (rpc \in {"returned", "exited"} /\ report.success) =>
        report.success_rate =
            <<Len(report.results), Cardinality(EnabledIn(config_file))>>

\* C26: a tracking cycle that collected at least one successful reading has,
\* when run_tracking_cycle has returned, handed its readings to the alert
\* evaluator through process_alerts, besides having called save_results.
C26_CycleEvaluatesAlerts ==
    (rpc \in {"returned", "exited"} /\ spc = "done" /\ valid_results # <<>>) =>
        /\ save_calls # <<>>
        /\ cycle >= 1
        /\ process_result.returned
        /\ Len(current_prices) = Len(valid_results)

-----------------------------------------------------------------------------
(* Claims about alert processing, the alert log and the notification email *)

LastSession == mail_server[Len(mail_server)]

\* the last n records of the alert log
LogTail(n) ==
    SubSeq(alert_log.records, Len(alert_log.records) - n + 1, Len(alert_log.records))

\* C22: an email is attempted only for a non-empty alert list with email
\* enabled: every SMTP session carries alerts and was opened with email
\* enabled, process_alerts calls send_email_alert only with email enabled and
\* alerts found, and send_email_alert called with email disabled or with no
\* alerts returns False.
C22_EmailOnlyWhenEnabledAndAlerts ==
    /\ \A i \in DOMAIN mail_server : mail_server[i].alerts # <<>>
    /\ mail_server # <<>> => email_enabled
    /\ (notify_call.op = "process_alerts" /\ send_result # "none") =>
          email_enabled /\ alerts # <<>>
    /\ (notify_call.op = "send_email_alert"
        /\ (~email_enabled \/ notify_call.arg = <<>>)) => send_result = "False"

\* C22 witness: send_email_alert was called with alerts while email is
\* disabled, returned False and no SMTP session was opened.
C22_Witness ==
    /\ notify_call.op = "send_email_alert" /\ notify_call.arg # <<>>
    /\ ~email_enabled
    /\ send_result = "False"
    /\ mail_server = <<>>

\* C23: a failed send never fails alert processing: send_email_alert returns
\* True or False and never raises, True only after a session that sent the
\* message; process_alerts returns every alert it found, and the alerts it
\* found are the last records of the alert log however the send ended.
C23_SendFailureIsNotFatal ==
    /\ send_result \in {"none", "True", "False"}
    /\ (notify_call.op = "send_email_alert" /\ email_enabled /\ notify_call.arg # <<>>) =>
          send_result \in {"True", "False"}
    /\ notify_call.op = "process_alerts" =>
          /\ process_result.returned
          /\ process_result.alerts = check_price_alerts(current_prices)
          /\ alerts # <<>> =>
                /\ alert_log.status = "ok"
                /\ Len(alert_log.records) >= Len(alerts)
                /\ LogTail(Len(alerts)) = alerts
          /\ (email_enabled /\ alerts # <<>>) => send_result \in {"True", "False"}
    /\ (notify_call.op \in {"process_alerts", "send_email_alert"} /\ send_result = "True") =>
          /\ mail_server # <<>>
          /\ LastSession.outcome = "sent"

\* C23 witness: process_alerts found alerts with email enabled, the send
\* failed, the call returned the alerts and they are in the log.
C23_Witness ==
    /\ notify_call.op = "process_alerts"
    /\ alerts # <<>> /\ email_enabled
    /\ send_result = "False"
    /\ process_result.returned /\ process_result.alerts = alerts
    /\ LogTail(Len(alerts)) = alerts

RECURSIVE Concat(_)
Concat(lists) ==
    IF lists = <<>> THEN <<>> ELSE Concat(SubSeq(lists, 1, Len(lists) - 1)) \o lists[Len(lists)]

\* C24: the alert log is append-only: after every call it holds the lists
\* passed to save_alert_log so far, concatenated in call order; a call keeps
\* the records that were there as a prefix, and a call with the empty list
\* leaves the file as it was, absent if it was absent.
C24_AlertLogAppendOnly ==
    [][/\ alert_log'.records = Concat(passed')
       /\ IsPrefix(alert_log.records, alert_log'.records)
       /\ (Len(passed') = Len(passed) + 1 /\ passed'[Len(passed')] = <<>>) =>
             alert_log' = alert_log
       /\ passed' = passed => alert_log' = alert_log]_vars

\* C24 witness: save_alert_log has been called with the empty list and with
\* two non-empty lists, the log holding the two lists in call order.
C24_Witness ==
    /\ Len(passed) = 3
    /\ \E i, j, k \in 1..3 :
          /\ i < j
          /\ passed[i] # <<>> /\ passed[j] # <<>> /\ passed[k] = <<>>
          /\ passed[i] # passed[j]
          /\ alert_log.records = passed[i] \o passed[j]

-----------------------------------------------------------------------------
(* SpecDisplay: a site variant normalizes a page's price text and the alert *)
(* evaluator reads the display price back with parse_price                  *)

DisplayEuros == {5, 48, 486}

DisplayCents == {0, 50, 99}

DecimalSeparators == {",", "."}

\* how a page writes an amount: symbol first, symbol and a blank, no symbol,
\* symbol last
AmountForms == {"€X", "€ X", "X", "X€"}

\* euros and cents written with a separator in one of the forms
WrittenAmount(euros, cents, sep, form) ==
    LET numeral == IntText(euros) \o <<sep>> \o TwoDigits(cents)
    IN  CASE form = "€X"  -> <<"€">> \o numeral
          [] form = "€ X" -> <<"€", " ">> \o numeral
          [] form = "X"   -> numeral
          [] form = "X€"  -> numeral \o <<"€">>

\* every way of writing euros and cents
WaysToWrite(euros, cents) ==
    {WrittenAmount(euros, cents, sep, form) : sep \in DecimalSeparators, form \in AmountForms}

PagePriceTexts == UNION {WaysToWrite(e, c) : e \in DisplayEuros, c \in DisplayCents}

InitDisplay ==
    /\ AlertIdle
    /\ ScrapeIdle
    /\ CycleIdle
    /\ NotifyIdle
    /\ ConfIdle
    /\ page = NoPage
    /\ site_result = NoSiteResult
    /\ price_in = Num(0)
    /\ price_text \in PagePriceTexts
    /\ price_out = [ok |-> FALSE, value |-> Num(0)]
    /\ ppc = "page"

\* amazon.normalize_price on the price text
DisplayAmazon ==
    /\ ppc = "page"
    /\ site_result' = Returned("Amazon.it", amazon_normalize_price(price_text))
    /\ ppc' = "shown"
    /\ UNCHANGED <<page, price_in, price_text, price_out>>
    /\ UNCHANGED <<alert_vars, scrape_vars, cycle_vars, notify_vars, conf_vars>>

\* phoneclick.normalize_price on the price text
DisplayPhoneclick ==
    /\ ppc = "page"
    /\ site_result' = Returned("Phoneclick.it", phoneclick_normalize_price(price_text))
    /\ ppc' = "shown"
    /\ UNCHANGED <<page, price_in, price_text, price_out>>
    /\ UNCHANGED <<alert_vars, scrape_vars, cycle_vars, notify_vars, conf_vars>>

\* teknozone.normalize_price on the price text
DisplayTeknozone ==
    /\ ppc = "page"
    /\ site_result' = Returned("Teknozone.it", teknozone_normalize_price(price_text))
    /\ ppc' = "shown"
    /\ UNCHANGED <<page, price_in, price_text, price_out>>
    /\ UNCHANGED <<alert_vars, scrape_vars, cycle_vars, notify_vars, conf_vars>>

\* the alert evaluator reads the display price: parse_price(item['price'])
ReadDisplayPrice ==
    /\ ppc = "shown"
    /\ price_out' = [ok |-> TRUE, value |-> parse_price(site_result.price)]
    /\ ppc' = "read"
    /\ UNCHANGED <<page, site_result, price_in, price_text>>
    /\ UNCHANGED <<alert_vars, scrape_vars, cycle_vars, notify_vars, conf_vars>>

NextDisplay == DisplayAmazon \/ DisplayPhoneclick \/ DisplayTeknozone \/ ReadDisplayPrice

SpecDisplay == InitDisplay /\ [][NextDisplay]_vars

\* C28: parse_price returns the amount a display price denotes: a display
\* price that writes euros and two-digit cents with a comma or a dot, in
\* any of the forms, is read back as euros + cents/100.
C28_DisplayPriceReadBack ==
    ppc = "read" =>
        \A e \in DisplayEuros, c \in DisplayCents :
            site_result.price \in WaysToWrite(e, c) => price_out.value = Cents(100 * e + c)

====
